---------------------------- MODULE Spec2Model ----------------------------
(***************************************************************************)
(* A model of the netidx container service and of the BScript functions it *)
(* runs: the dependency index Lc, the ref() function, the stdfn functions  *)
(* any, all, eval, load, load_var, store_var and call, the container's     *)
(* handlers (publish_formula, update_refs, process_update, ...) and its    *)
(* main loop.                                                              *)
(***************************************************************************)
EXTENDS Integers, Sequences, FiniteSets, TLC

VARIABLES
    pc,            \* Container::run position: "init", "loop", "done", "panic"
    var,           \* Lc.var: Chars -> set of ExprId
    sub,           \* Lc.sub: SubId -> set of ExprId
    rpc,           \* Lc.rpc: Path -> set of ExprId
    refs,          \* Lc.refs: Path -> set of ExprId
    forward_refs,  \* Lc.forward_refs: ExprId -> Refs
    var_updates,   \* Lc.var_updates
    ref_updates,   \* Lc.ref_updates
    variables,     \* ExecCtx.variables: Chars -> Value
    events,        \* the bscript_event channel (Lc.events is its sender)
    by_id,         \* Lc.by_id: publisher Id -> Published
    by_path,       \* Lc.by_path: Path -> Published
    db,            \* Lc.db: Path -> Datum
    pending,       \* the change-log db.finish() will return
    vals,          \* the publisher: Id -> [path, v] of the published Val
    dvals,         \* the subscriber: SubId -> [path, last]
    compiled,      \* Container.compiled: ExprId -> Compiled
    locked,        \* Container.locked
    fifos,         \* the Fifo records: data Val id -> [expr_id, on_write_expr_id]
    next_id,       \* the fresh-id counters: [expr, sub, val, call]
    rpcs,          \* Container.rpcs with the worker task behind each sender
    ctrl_c,        \* whether the Ctrl-C signal was raised
    inputs,        \* how many inputs the environment has sent
    obs,           \* what the last handler did (history, read by the properties)
    channel,       \* a connection: the Channel at each end and its TcpStream
    resolver       \* the resolver server: its store, its clients, their tasks

vars == <<pc, var, sub, rpc, refs, forward_refs, var_updates, ref_updates,
          variables, events, by_id, by_path, db, pending, vals, dvals, compiled,
          locked, fifos, next_id, rpcs, ctrl_c, inputs, obs, channel, resolver>>

\* the connection and the resolver server
netvars == <<channel, resolver>>

\* the container and the functions
lcvars == <<var, sub, rpc, refs, forward_refs, var_updates, ref_updates,
            variables, events, by_id, by_path, db, pending, vals, dvals, compiled,
            locked, fifos, next_id, rpcs, ctrl_c, inputs, obs>>

-----------------------------------------------------------------------------
(* Values: a tag and a text.  Option<Value> is a Value or NoneV.            *)

NoneV == [t |-> "None", v |-> ""]
Null == [t |-> "Null", v |-> "null"]
Str(s) == [t |-> "String", v |-> s]
U64(s) == [t |-> "U64", v |-> s]
Err(s) == [t |-> "Error", v |-> s]
OkV == [t |-> "Ok", v |-> "ok"]
RefErr == Err("#REF")

IsSome(o) == o # NoneV

\* Value::get_as::<Chars>: the text of a String, nothing for any other tag.
GetAsChars(v) == IF v.t = "String" THEN Str(v.v) ELSE NoneV

\* Value::cast_to::<Chars>: the text of the value, whatever its tag.
CastToChars(v) == v.v

-----------------------------------------------------------------------------
(* Strings and paths.                                                       *)

StartsWith(s, p) == Len(p) <= Len(s) /\ SubSeq(s, 1, Len(p)) = p

EndsWith(s, p) == Len(p) <= Len(s) /\ SubSeq(s, Len(s) - Len(p) + 1, Len(s)) = p

\* the index of the last "/" of s, 0 when it has none
LastSep(s) ==
    LET idx == {i \in 1..Len(s) : SubSeq(s, i, i) = "/"}
    IN  IF idx = {} THEN 0 ELSE CHOOSE i \in idx : \A j \in idx : j <= i

\* Path::basename: what follows the last separator; None when nothing does.
Basename(s) ==
    IF LastSep(s) = Len(s) THEN NoneV ELSE Str(SubSeq(s, LastSep(s) + 1, Len(s)))

\* Path::dirname: what precedes the last separator; None for a top-level name.
Dirname(s) ==
    IF LastSep(s) <= 1 THEN NoneV ELSE Str(SubSeq(s, 1, LastSep(s) - 1))

\* Path::append
PathAppend(p, c) == IF EndsWith(p, "/") THEN p \o c ELSE p \o "/" \o c

\* Path::is_absolute
IsAbsolute(s) == StartsWith(s, "/")

\* Path::is_parent(parent, other): other is parent or lies below it
IsParent(parent, other) ==
    /\ StartsWith(other, parent)
    /\ \/ Len(other) = Len(parent)
       \/ EndsWith(parent, "/")
       \/ SubSeq(other, Len(parent) + 1, Len(parent) + 1) = "/"

-----------------------------------------------------------------------------
(* Maps: functions whose domain is the set of keys present.                 *)

EmptyMap == [k \in {} |-> {}]

Has(m, k) == k \in DOMAIN m

MapPut(m, k, x) == [y \in DOMAIN m \cup {k} |-> IF y = k THEN x ELSE m[y]]

MapDel(m, k) == [y \in DOMAIN m \ {k} |-> m[y]]

\* entry(k).or_insert_with(new set).insert(e)
SetInsert(m, k, e) == MapPut(m, k, IF Has(m, k) THEN m[k] \cup {e} ELSE {e})

\* entry(k).or_insert_with(new set).remove(e): the entry stays, also when empty
SetRemove(m, k, e) == MapPut(m, k, IF Has(m, k) THEN m[k] \ {e} ELSE {})

\* no connection is open, no resolver server runs
NoChannel == [open |-> FALSE]
NoResolver == [running |-> FALSE]

\* the element of a set of one element; Only({e : x \in {v}}) is e with x
\* standing for the value of v, which is computed once
Only(S) == CHOOSE x \in S : TRUE

-----------------------------------------------------------------------------
(* The execution context: ExecCtx<Lc, UserEv> with the collaborators the    *)
(* functions reach through it, as one record.                               *)

St ==
    [var |-> var, sub |-> sub, rpc |-> rpc, refs |-> refs,
     forward_refs |-> forward_refs, var_updates |-> var_updates,
     ref_updates |-> ref_updates, variables |-> variables, events |-> events,
     by_id |-> by_id, by_path |-> by_path, db |-> db, pending |-> pending,
     vals |-> vals, dvals |-> dvals, compiled |-> compiled, locked |-> locked,
     fifos |-> fifos, next_id |-> next_id, rpcs |-> rpcs,
     \* the UpdateBatch of this turn, and what the turn did
     batch |-> <<>>, iters |-> 0, total |-> 0, calls |-> 0, posts |-> 0,
     unposted |-> FALSE,
     reply |-> NoneV, panicked |-> FALSE, delivered |-> <<>>, written |-> <<>>,
     \* what the functions wrote to their Dvals: <<SubId, Value>>
     dv_writes |-> <<>>,
     \* what the iterations of update_refs took from the two queues
     drained |-> <<>>,
     \* the calls call_rpc queued, <<RpcCallId, ExprId>>, and the replies that
     \* an update returned, <<ExprId, RpcCallId>>
     issued |-> <<>>, surfaced |-> <<>>,
     \* the ExprIds change_formula and change_on_write replaced, each with
     \* whether it was still registered where the new source is compiled
     rewrites |-> <<>>]

\* the next state is the context c
Becomes(c) ==
    /\ var' = c.var
    /\ sub' = c.sub
    /\ rpc' = c.rpc
    /\ refs' = c.refs
    /\ forward_refs' = c.forward_refs
    /\ var_updates' = c.var_updates
    /\ ref_updates' = c.ref_updates
    /\ variables' = c.variables
    /\ events' = c.events
    /\ by_id' = c.by_id
    /\ by_path' = c.by_path
    /\ db' = c.db
    /\ pending' = c.pending
    /\ vals' = c.vals
    /\ dvals' = c.dvals
    /\ compiled' = c.compiled
    /\ locked' = c.locked
    /\ fifos' = c.fifos
    /\ next_id' = c.next_id
    /\ rpcs' = c.rpcs
    /\ UNCHANGED netvars

-----------------------------------------------------------------------------
(* The dependency index Lc.                                                 *)

RefsNew == [refs |-> {}, rpcs |-> {}, subs |-> {}, vars |-> {}]

\* forward_refs.entry(id).or_insert_with(Refs::new)
FwdEntry(f, id) == IF Has(f, id) THEN f[id] ELSE RefsNew

remove_eid_from_set(tbl, key, expr_id) ==
    IF ~Has(tbl, key) THEN tbl
    ELSE IF tbl[key] \ {expr_id} = {} THEN MapDel(tbl, key)
    ELSE MapPut(tbl, key, tbl[key] \ {expr_id})

RECURSIVE RemoveEids(_, _, _)
\* for key in keys { remove_eid_from_set(tbl, key, expr_id) }
RemoveEids(tbl, keys, expr_id) ==
    IF keys = {} THEN tbl
    ELSE LET k == CHOOSE x \in keys : TRUE
         IN  RemoveEids(remove_eid_from_set(tbl, k, expr_id), keys \ {k}, expr_id)

\* an unref that leaves the refs table as it is
UnrefKeepsRefs(c, expr_id) ==
    IF ~Has(c.forward_refs, expr_id) THEN c
    ELSE LET r == c.forward_refs[expr_id]
         IN  [c EXCEPT !.forward_refs = MapDel(@, expr_id),
                       !.rpc = RemoveEids(@, r.rpcs, expr_id),
                       !.sub = RemoveEids(@, r.subs, expr_id),
                       !.var = RemoveEids(@, r.vars, expr_id)]

\* Lc::unref
unref(c, expr_id) ==
    IF ~Has(c.forward_refs, expr_id) THEN c
    ELSE LET r == c.forward_refs[expr_id]
         IN  [c EXCEPT !.forward_refs = MapDel(@, expr_id),
                       !.refs = RemoveEids(@, r.refs, expr_id),
                       !.rpc = RemoveEids(@, r.rpcs, expr_id),
                       !.sub = RemoveEids(@, r.subs, expr_id),
                       !.var = RemoveEids(@, r.vars, expr_id)]

\* Subscriber::durable_subscribe: a new Dval, with an id of its own, that has
\* seen no update yet.
SubscriberSubscribe(c, path) ==
    [c EXCEPT !.dvals = MapPut(@, c.next_id.sub, [path |-> path, last |-> NoneV]),
              !.next_id.sub = @ + 1]

\* Lc::durable_subscribe; the new Dval's id is c.next_id.sub
durable_subscribe(c, path, ref_id) ==
    LET id == c.next_id.sub
        c1 == SubscriberSubscribe(c, path)
    IN  [c1 EXCEPT !.sub = SetInsert(@, id, ref_id),
                   !.forward_refs =
                       MapPut(@, ref_id,
                              [FwdEntry(@, ref_id) EXCEPT !.subs = @ \cup {id}])]

\* Lc::ref_var
ref_var(c, name, ref_id) ==
    [c EXCEPT !.var = SetInsert(@, name, ref_id),
              !.forward_refs =
                  MapPut(@, ref_id,
                         [FwdEntry(@, ref_id) EXCEPT !.vars = @ \cup {name}])]

\* Lc::set_var
set_var(c, name, value) ==
    [c EXCEPT !.variables = MapPut(@, name, value),
              !.var_updates = Append(@, <<name, value>>)]

\* Lc::call_rpc
call_rpc(c, name, args, ref_id, id) ==
    [c EXCEPT !.rpc = SetInsert(@, name, ref_id),
              !.forward_refs =
                  MapPut(@, ref_id,
                         [FwdEntry(@, ref_id) EXCEPT !.rpcs = @ \cup {name}]),
              !.events = Append(@, [k |-> "RpcCall", name |-> name,
                                    args |-> args, id |-> id,
                                    result |-> NoneV]),
              !.issued = Append(@, <<id, ref_id>>)]

-----------------------------------------------------------------------------
(* Expressions.  A source text parses to an expression tree or fails; a     *)
(* successful parse takes a fresh ExprId.                                   *)

K(v) == [kind |-> "Constant", val |-> v, function |-> "", args |-> <<>>]
Ap(f, a) == [kind |-> "Apply", val |-> NoneV, function |-> f, args |-> a]

\* the formula sources the scenarios use
SrcConst == "42"
SrcNull == "null"
SrcBad == "sum(1, bogus"
SrcRefA == "ref(\"/r/a\")"
SrcRefB == "ref(\"/r/b\")"
SrcRefVar == "ref(load_var(\"px\"))"
SrcLoadVar == "load(load_var(\"px\"))"
SrcCallVar == "call(load_var(\"px\"))"
SrcEvalVar == "eval(load_var(\"sx\"))"
SrcAny == "any(load_var(\"xa\"), load_var(\"xb\"))"
SrcAll == "all(load_var(\"xa\"), load_var(\"xb\"))"
SrcAnyEval == "any(eval(load_var(\"sx\")), load_var(\"xa\"))"
SrcLoadXa == "load_var(\"xa\")"
SrcUniqUniq == "uniq(uniq(load_var(\"xa\")))"
SrcSample == "sample(load_var(\"xb\"), load_var(\"xa\"))"
SrcSampleOne == "sample(load_var(\"xa\"))"
SrcStorePx == "store(load_var(\"px\"), load_var(\"xa\"))"
SrcStoreVarPx == "store_var(load_var(\"px\"), load_var(\"xa\"))"
SrcStoreVar == "store_var(\"xa\", ref(\"/r/a\"))"
SrcLoad == "load(\"/x/d\")"
SrcCall == "call(\"/x/f\")"

LoadVarE(n) == Ap("load_var", <<K(Str(n))>>)

ParseTable ==
    [s \in {SrcConst, SrcNull, SrcRefA, SrcRefB, SrcRefVar, SrcLoadVar, SrcCallVar,
            SrcEvalVar, SrcAny, SrcAll, SrcAnyEval, SrcLoadXa, SrcStoreVar,
            SrcLoad, SrcCall, SrcUniqUniq, SrcStorePx, SrcStoreVarPx, SrcSample,
            SrcSampleOne} |->
        CASE s = SrcConst -> K(U64("42"))
          [] s = SrcNull -> K(Null)
          [] s = SrcRefA -> Ap("ref", <<K(Str("/r/a"))>>)
          [] s = SrcRefB -> Ap("ref", <<K(Str("/r/b"))>>)
          [] s = SrcRefVar -> Ap("ref", <<LoadVarE("px")>>)
          [] s = SrcLoadVar -> Ap("load", <<LoadVarE("px")>>)
          [] s = SrcCallVar -> Ap("call", <<LoadVarE("px")>>)
          [] s = SrcEvalVar -> Ap("eval", <<LoadVarE("sx")>>)
          [] s = SrcAny -> Ap("any", <<LoadVarE("xa"), LoadVarE("xb")>>)
          [] s = SrcAll -> Ap("all", <<LoadVarE("xa"), LoadVarE("xb")>>)
          [] s = SrcAnyEval ->
                Ap("any", <<Ap("eval", <<LoadVarE("sx")>>), LoadVarE("xa")>>)
          [] s = SrcLoadXa -> LoadVarE("xa")
          [] s = SrcStoreVar ->
                Ap("store_var", <<K(Str("xa")), Ap("ref", <<K(Str("/r/a"))>>)>>)
          [] s = SrcLoad -> Ap("load", <<K(Str("/x/d"))>>)
          [] s = SrcCall -> Ap("call", <<K(Str("/x/f"))>>)
          [] s = SrcUniqUniq -> Ap("uniq", <<Ap("uniq", <<LoadVarE("xa")>>)>>)
          [] s = SrcStorePx -> Ap("store", <<LoadVarE("px"), LoadVarE("xa")>>)
          [] s = SrcStoreVarPx -> Ap("store_var", <<LoadVarE("px"), LoadVarE("xa")>>)
          [] s = SrcSample -> Ap("sample", <<LoadVarE("xb"), LoadVarE("xa")>>)
          [] s = SrcSampleOne -> Ap("sample", <<LoadVarE("xa")>>)]

\* str::parse::<Expr>
ParseOk(s) == s \in DOMAIN ParseTable
ParseExpr(s) == ParseTable[s]

\* the text of a parse error
ParseError(s) == "parse error: " \o s

\* expr::VNAME
VarNames == {"px", "sx", "xa", "xb"}
IsVarName(n) == n \in VarNames

-----------------------------------------------------------------------------
(* Nodes.  A node is [fn, id, args, s]: the function's name, the ExprId it  *)
(* was compiled under, its child nodes and the function's own state.        *)

RECURSIVE Current(_, _), Update(_, _, _), UpdateArgs(_, _, _)
RECURSIVE Compile(_, _, _), CompileArgs(_, _, _)

MkNode(fn, id, args, s) == [fn |-> fn, id |-> id, args |-> args, s |-> s]
NoNode == MkNode("none", 0, <<>>, [x |-> 0])
R(c, n, out) == [c |-> c, n |-> n, out |-> out]
\* what a function returns after a step that gave the context and node r
Ret(r, out) == R(r.c, r.n, out)

EvUser(path, v) == [k |-> "User", key |-> path, id |-> 0, value |-> v]
EvVariable(name, v) == [k |-> "Variable", key |-> name, id |-> 0, value |-> v]
EvNetidx(id, v) == [k |-> "Netidx", key |-> "", id |-> id, value |-> v]
EvRpc(name, id, v) == [k |-> "Rpc", key |-> name, id |-> id, value |-> v]

(* Every function's init takes the compiled children (from), the ExprId and *)
(* the children's current values (curs).  Every function's update takes the *)
(* context and the node after the children were updated (the node's args    *)
(* are the updated children), what each child returned (outs) and a record  *)
(* u giving the children's current values after the update (u.curs).        *)

AnySome(outs) == \E i \in 1..Len(outs) : IsSome(outs[i])

\* the last Some of a sequence of options
LastSome(outs) ==
    IF AnySome(outs)
    THEN outs[CHOOSE i \in 1..Len(outs) :
                 IsSome(outs[i]) /\ \A j \in (i + 1)..Len(outs) : ~IsSome(outs[j])]
    ELSE NoneV

\* the first Some of a sequence of options: the fold of Any::update, which
\* keeps the result it has once it is Some
FirstSome(outs) ==
    IF AnySome(outs)
    THEN outs[CHOOSE i \in 1..Len(outs) :
                 IsSome(outs[i]) /\ \A j \in 1..(i - 1) : ~IsSome(outs[j])]
    ELSE NoneV

\* CachedVals::update, given what the children returned
CachedValsUpdate(cached, outs) ==
    [i \in 1..Len(cached) |-> IF IsSome(outs[i]) THEN outs[i] ELSE cached[i]]

\* ---- any
AnyInit(c, from, id, curs) ==
    R(c, MkNode("any", id, from, [cur |-> FirstSome(curs)]), NoneV)

\* what Any::update stores in self.0, given the fold's result
AnyStored(n, res) == res

AnyUpdate(c, n, ev, u) ==
    R(c, [n EXCEPT !.s.cur = AnyStored(n, FirstSome(u.outs))], FirstSome(u.outs))

\* ---- all, a CachedCur
AllEv(cached) ==
    IF Len(cached) = 0 THEN NoneV
    ELSE IF cached[1] = NoneV THEN NoneV
    ELSE IF \A i \in 2..Len(cached) : cached[i] = cached[1] THEN cached[1]
    ELSE NoneV

CachedCurInit(c, from, id, curs) ==
    R(c, MkNode("all", id, from, [cached |-> curs, current |-> AllEv(curs)]), NoneV)

CachedCurUpdate(c, n, ev, u) ==
    LET cached == CachedValsUpdate(n.s.cached, u.outs)
        cur == AllEv(cached)
        n1 == [n EXCEPT !.s.cached = cached]
    IN  IF ~AnySome(u.outs) THEN R(c, n1, NoneV)
        ELSE IF cur = n.s.current THEN R(c, n1, NoneV)
        ELSE R(c, [n1 EXCEPT !.s.current = cur], cur)

\* ---- sample
SampleErr == Err("sample(trigger, source): expected 2 arguments")

SampleInit(c, from, id, curs) ==
    R(c, MkNode("sample", id, from,
                [current |-> IF Len(from) # 2 THEN SampleErr
                             ELSE IF curs[1] = NoneV THEN NoneV
                             ELSE curs[2]]), NoneV)

\* Sample::update, given what the children it updated returned
SampleUpdate(c, n, ev, u) ==
    IF Len(n.args) = 2
    THEN IF u.outs[1] = NoneV THEN R(c, n, NoneV)
         ELSE R(c, [n EXCEPT !.s.current = u.curs[2]], u.curs[2])
    ELSE R(c, [n EXCEPT !.s.current = SampleErr], SampleErr)

\* ---- uniq
UniqUsage == Err("uniq(e): expected 1 argument")

UniqInit(c, from, id, curs) ==
    R(c, MkNode("uniq", id, from,
                [cur |-> IF Len(from) = 1 THEN curs[1] ELSE UniqUsage]), NoneV)

\* a Uniq that passes every update of its child
UniqPassesAll(c, n, ev, u) ==
    IF Len(n.args) = 1
    THEN IF IsSome(u.outs[1]) THEN R(c, [n EXCEPT !.s.cur = u.outs[1]], u.outs[1])
         ELSE R(c, n, NoneV)
    ELSE R(c, [n EXCEPT !.s.cur = UniqUsage],
           IF AnySome(u.outs) THEN UniqUsage ELSE NoneV)

UniqUpdate(c, n, ev, u) ==
    IF Len(n.args) = 1
    THEN IF IsSome(u.outs[1]) /\ u.outs[1] # n.s.cur
         THEN R(c, [n EXCEPT !.s.cur = u.outs[1]], u.outs[1])
         ELSE R(c, n, NoneV)
    ELSE R(c, [n EXCEPT !.s.cur = UniqUsage],
           IF AnySome(u.outs) THEN UniqUsage ELSE NoneV)

\* ---- eval
EvalParseError(s) ==
    Err("eval(src), error parsing formula " \o s \o ", " \o ParseError(s))

\* Eval::compile: [c, n] with self.current set from self.cached
EvalCompile(c, n) ==
    LET cached == n.s.cached
        failed(e) == [c |-> c, n |-> [n EXCEPT !.s.ok = FALSE, !.s.node = NoNode,
                                               !.s.err = e]]
    IN  IF Len(cached) # 1 THEN failed(Err("eval(src) expected 1 argument"))
        ELSE IF cached[1] = NoneV THEN failed(Null)
        ELSE IF cached[1].t # "String"
             THEN failed(Err("eval(src) expected 1 string argument, not "
                             \o cached[1].v))
        ELSE IF ~ParseOk(cached[1].v) THEN failed(EvalParseError(cached[1].v))
        ELSE LET compiled_as(r) ==
                     [c |-> r.c, n |-> [n EXCEPT !.s.ok = TRUE, !.s.node = r.n,
                                                 !.s.err = NoneV]]
             IN  compiled_as(Compile([c EXCEPT !.next_id.expr = @ + 1],
                                     ParseExpr(cached[1].v), c.next_id.expr))

\* the Eval a fresh init builds, before its first compile
EvalNew(from, id, curs) ==
    MkNode("eval", id, from,
           [cached |-> curs, ok |-> FALSE, node |-> NoNode, err |-> Null])

EvalInit(c, from, id, curs) == Ret(EvalCompile(c, EvalNew(from, id, curs)), NoneV)

\* an Eval that compiles a new source only while the last one parsed
EvalRecompilesWhileOk(n, outs) == AnySome(outs) /\ n.s.ok

\* whether Eval::update compiles again, given what the children returned
EvalRecompiles(n, outs) == AnySome(outs)

\* Eval::update, once the source was compiled again if it had to be: e is
\* the context and the Eval
EvalUpdateNode(e, ev) ==
    LET inner(i) == R(i.c, [e.n EXCEPT !.s.node = i.n], i.out)
    IN  IF e.n.s.ok THEN inner(Update(e.c, e.n.s.node, ev))
        ELSE R(e.c, e.n, e.n.s.err)

EvalUpdate(c, n, ev, u) ==
    EvalUpdateNode(IF EvalRecompiles(n, u.outs)
                   THEN EvalCompile(c, [n EXCEPT !.s.cached =
                                            CachedValsUpdate(n.s.cached, u.outs)])
                   ELSE [c |-> c, n |-> n],
                   ev)

\* ---- pathname
\* pathname: [invalid, p], p the path when the value names an absolute path
Pathname(o) ==
    IF o = NoneV THEN [invalid |-> FALSE, p |-> NoneV]
    ELSE IF IsAbsolute(CastToChars(o)) THEN [invalid |-> FALSE, p |-> Str(CastToChars(o))]
    ELSE [invalid |-> TRUE, p |-> NoneV]

\* ---- store
StoreErr == Err("store(tgt: absolute path, val): expected 2 arguments")

\* dv.write(v), for the Dval of this id
DvalWrite(c, dv, v) == [c EXCEPT !.dv_writes = Append(@, <<dv, v>>)]

RECURSIVE DvalWrites(_, _, _)
\* for v in queued { dv.write(v) }
DvalWrites(c, dv, queued) ==
    IF queued = <<>> THEN c
    ELSE DvalWrites(DvalWrite(c, dv, Head(queued)), dv, Tail(queued))

\* Store::set: [c, n]; self.dv is the Dval's id and its path, 0 for None
StoreSet(c, n, to, val) ==
    LET pn == Pathname(to)
        n1 == [n EXCEPT !.s.invalid = pn.invalid]
        q == IF val = NoneV THEN n.s.queued ELSE Append(n.s.queued, val)
    IN  IF pn.p = NoneV
        THEN IF val = NoneV THEN [c |-> c, n |-> n1]
             ELSE IF n.s.dv = 0 THEN [c |-> c, n |-> [n1 EXCEPT !.s.queued = q]]
             ELSE [c |-> DvalWrite(c, n.s.dv, val), n |-> n1]
        ELSE [c |-> DvalWrites(durable_subscribe(c, pn.p.v, n.id), c.next_id.sub, q),
              n |-> [n1 EXCEPT !.s.queued = <<>>, !.s.dv = c.next_id.sub,
                               !.s.path = pn.p]]

StoreInit(c, from, id, curs) ==
    LET t == MkNode("store", id, from,
                    [queued |-> <<>>, dv |-> 0, path |-> NoneV, invalid |-> FALSE])
    IN  Ret(IF Len(from) = 2 THEN StoreSet(c, t, curs[1], curs[2])
            ELSE [c |-> c, n |-> [t EXCEPT !.s.invalid = TRUE]], NoneV)

StoreCurrent(c, n) == IF n.s.invalid THEN StoreErr ELSE NoneV

\* Store::same_path
SamePath(n, new_path) ==
    new_path # NoneV /\ new_path.t = "String" /\ n.s.dv # 0
    /\ new_path.v = n.s.path.v

StoreUpdate(c, n, ev, u) ==
    IF Len(n.args) = 2
    THEN LET path == u.outs[1]
             value == IF IsSome(path) /\ ~SamePath(n, path) /\ u.outs[2] = NoneV
                      THEN u.curs[2] ELSE u.outs[2]
             was_set(r) ==
                 Ret(r, IF IsSome(value) THEN StoreCurrent(r.c, r.n) ELSE NoneV)
         IN  was_set(StoreSet(c, n, path, value))
    ELSE R(c, [n EXCEPT !.s.invalid = TRUE],
           IF AnySome(u.outs) THEN StoreErr ELSE NoneV)

\* ---- load
LoadErr == Err("load(expr: path) expected 1 absolute path as argument")

\* Load::subscribe: [c, n]
LoadSubscribe(c, n, name) ==
    LET pn == Pathname(name)
    IN  IF pn.p = NoneV THEN [c |-> c, n |-> [n EXCEPT !.s.invalid = pn.invalid]]
        ELSE [c |-> durable_subscribe(c, pn.p.v, n.id),
              n |-> [n EXCEPT !.s.invalid = FALSE, !.s.cur = c.next_id.sub]]

LoadInit(c, from, id, curs) ==
    LET t == MkNode("load", id, from, [cur |-> 0, invalid |-> FALSE])
    IN  Ret(IF Len(from) = 1 THEN LoadSubscribe(c, t, curs[1])
            ELSE [c |-> c, n |-> [t EXCEPT !.s.invalid = TRUE]], NoneV)

LoadCurrent(c, n) ==
    IF n.s.invalid THEN LoadErr
    ELSE IF n.s.cur = 0 THEN NoneV
    ELSE c.dvals[n.s.cur].last

LoadUpdate(c, n, ev, u) ==
    IF Len(n.args) = 1
    THEN LET subscribed(r) ==
                 IF r.n.s.invalid
                 THEN Ret(r, IF IsSome(u.outs[1]) THEN LoadErr ELSE NoneV)
                 ELSE Ret(r, IF r.n.s.cur # 0 /\ ev.k = "Netidx" /\ ev.id = r.n.s.cur
                             THEN ev.value ELSE NoneV)
         IN  subscribed(LoadSubscribe(c, n, u.outs[1]))
    ELSE R(c, [n EXCEPT !.s.invalid = TRUE],
           IF AnySome(u.outs) THEN LoadErr ELSE NoneV)

\* ---- load_var
\* varname: [invalid, n], n the name when the value is a variable name
Varname(o) ==
    IF o = NoneV THEN [invalid |-> FALSE, n |-> NoneV]
    ELSE IF IsVarName(CastToChars(o)) THEN [invalid |-> FALSE, n |-> Str(CastToChars(o))]
    ELSE [invalid |-> TRUE, n |-> NoneV]

LoadVarErr == Err("load_var(expr: variable name): expected 1 variable name as argument")

\* LoadVar::subscribe: the node
LoadVarSubscribe(c, n, name) ==
    LET vn == Varname(name)
    IN  IF vn.n = NoneV THEN [n EXCEPT !.s.invalid = vn.invalid]
        ELSE [n EXCEPT !.s.invalid = FALSE, !.s.name = vn.n,
                       !.s.cur = IF Has(c.variables, vn.n.v)
                                 THEN c.variables[vn.n.v] ELSE NoneV]

LoadVarInit(c, from, id, curs) ==
    LET t == MkNode("load_var", id, from,
                    [name |-> NoneV, cur |-> NoneV, invalid |-> FALSE])
    IN  R(c, IF Len(from) = 1 THEN LoadVarSubscribe(c, t, curs[1])
             ELSE [t EXCEPT !.s.invalid = TRUE], NoneV)

LoadVarCurrent(c, n) == IF n.s.invalid THEN LoadVarErr ELSE n.s.cur

LoadVarUpdate(c, n, ev, u) ==
    IF Len(n.args) # 1
    THEN R(c, [n EXCEPT !.s.invalid = TRUE],
           IF AnySome(u.outs) THEN LoadVarErr ELSE NoneV)
    ELSE IF n.s.invalid
    THEN R(c, n, IF IsSome(u.outs[1]) THEN LoadVarErr ELSE NoneV)
    ELSE LET n2 == IF IsSome(u.outs[1]) THEN LoadVarSubscribe(c, n, u.outs[1])
                   ELSE n
         IN  IF n2.s.name # NoneV /\ ev.k = "Variable" /\ ev.key = n2.s.name.v
             THEN R(c, [n2 EXCEPT !.s.cur = ev.value], ev.value)
             ELSE R(c, n2, NoneV)

\* ---- store_var
StoreVarErr ==
    Err("store_var(name: string [a-z][a-z0-9_]+, value): expected 2 arguments")

RECURSIVE SetVars(_, _, _)
\* for v in queued { ctx.user.set_var(.., name, v) }
SetVars(c, name, queued) ==
    IF queued = <<>> THEN c
    ELSE SetVars(set_var(c, name, Head(queued)), name, Tail(queued))

\* StoreVar::set: [c, n]
StoreVarSet(c, n, name, value) ==
    LET vn == Varname(name)
        c1 == IF vn.n = NoneV THEN c ELSE SetVars(c, vn.n.v, n.s.queued)
        n1 == IF vn.n = NoneV THEN [n EXCEPT !.s.invalid = vn.invalid]
              ELSE [n EXCEPT !.s.invalid = FALSE, !.s.queued = <<>>, !.s.name = vn.n]
    IN  IF value = NoneV THEN [c |-> c1, n |-> n1]
        ELSE IF n1.s.name = NoneV
        THEN [c |-> c1, n |-> [n1 EXCEPT !.s.queued = Append(@, value)]]
        ELSE [c |-> set_var(c1, n1.s.name.v, value), n |-> n1]

StoreVarInit(c, from, id, curs) ==
    LET t == MkNode("store_var", id, from,
                    [queued |-> <<>>, name |-> NoneV, invalid |-> FALSE])
    IN  Ret(IF Len(from) = 2 THEN StoreVarSet(c, t, curs[1], curs[2])
            ELSE [c |-> c, n |-> [t EXCEPT !.s.invalid = TRUE]], NoneV)

StoreVarCurrent(c, n) == IF n.s.invalid THEN StoreVarErr ELSE NoneV

\* StoreVar::same_name
SameName(n, new_name) ==
    new_name # NoneV /\ new_name.t = "String" /\ n.s.name # NoneV
    /\ new_name.v = n.s.name.v

StoreVarUpdate(c, n, ev, u) ==
    IF Len(n.args) = 2
    THEN LET name == u.outs[1]
             value == IF IsSome(name) /\ ~SameName(n, name) /\ u.outs[2] = NoneV
                      THEN u.curs[2] ELSE u.outs[2]
             was_set(r) ==
                 Ret(r, IF IsSome(value) THEN StoreVarCurrent(r.c, r.n) ELSE NoneV)
         IN  was_set(StoreVarSet(c, n, name, value))
    ELSE R(c, [n EXCEPT !.s.invalid = TRUE],
           IF AnySome(u.outs) THEN StoreVarErr ELSE NoneV)

\* ---- call
RpcCallErr ==
    Err("call(rpc: string, kwargs): expected at least 1 argument, and an even number of kwargs")

IsPowerOfTwo(n) == \E e \in 0..n : 2 ^ e = n

\* RpcCall::get_args: [invalid, some, name, args]
GetArgs(cached) ==
    LET len == Len(cached)
        no(inv) == [invalid |-> inv, some |-> FALSE, name |-> "", args |-> <<>>]
    IN  IF len = 0 \/ (len > 1 /\ IsPowerOfTwo(len)) THEN no(TRUE)
        ELSE IF \E i \in 1..len : cached[i] = NoneV THEN no(FALSE)
        ELSE IF (len - 1) % 2 # 0 THEN no(TRUE)
        ELSE [invalid |-> FALSE, some |-> TRUE, name |-> CastToChars(cached[1]),
              args |-> [i \in 1..((len - 1) \div 2) |->
                           <<CastToChars(cached[2 * i]), cached[2 * i + 1]>>]]

\* RpcCall::maybe_call: [c, n]
MaybeCall(c, n) ==
    LET a == GetArgs(n.s.args)
        n1 == [n EXCEPT !.s.invalid = a.invalid]
    IN  IF a.some
        THEN [c |-> call_rpc([c EXCEPT !.next_id.call = @ + 1], a.name, a.args, n.id,
                             c.next_id.call),
              n |-> n1]
        ELSE [c |-> c, n |-> n1]

RpcCallInit(c, from, id, curs) ==
    Ret(MaybeCall(c, MkNode("call", id, from, [args |-> curs, invalid |-> TRUE])),
        NoneV)

RpcCallCurrent(c, n) == IF n.s.invalid THEN RpcCallErr ELSE NoneV

RpcCallUpdate(c, n, ev, u) ==
    IF AnySome(u.outs)
    THEN LET called(r) == Ret(r, RpcCallCurrent(r.c, r.n))
         IN  called(MaybeCall(c, [n EXCEPT !.s.args =
                                               CachedValsUpdate(n.s.args, u.outs)]))
    ELSE IF ev.k # "Rpc" THEN R(c, n, NoneV)
    ELSE IF Len(n.s.args) = 0 \/ n.s.args[1] = NoneV
    THEN R(c, [n EXCEPT !.s.invalid = TRUE], RpcCallErr)
    ELSE IF CastToChars(n.s.args[1]) = ev.key THEN R(c, n, ev.value)
    ELSE R(c, n, NoneV)

\* ---- ref
\* Ref::get_path, given the children's current values
RefGetPath(curs) ==
    IF Len(curs) = 1 /\ IsSome(curs[1]) THEN GetAsChars(curs[1]) ELSE NoneV

\* Ref::get_current
RefGetCurrent(c, path) ==
    IF path = NoneV THEN RefErr
    ELSE LET is_fpath == EndsWith(path.v, ".formula")
             is_wpath == EndsWith(path.v, ".on-write")
             dbpath == IF is_fpath \/ is_wpath THEN Basename(path.v) ELSE path
         IN  IF dbpath = NoneV THEN RefErr
             ELSE IF ~Has(c.db, dbpath.v) THEN RefErr
             ELSE IF c.db[dbpath.v].kind = "Data" THEN c.db[dbpath.v].v
             ELSE IF is_fpath THEN c.db[dbpath.v].f
             ELSE IF is_wpath THEN c.db[dbpath.v].w
             ELSE IF ~Has(c.by_path, dbpath.v) THEN RefErr
             ELSE IF c.by_path[dbpath.v].kind = "Data" THEN RefErr
             ELSE IF Has(c.vals, c.by_path[dbpath.v].val)
                  THEN c.vals[c.by_path[dbpath.v].val].v
             ELSE RefErr

\* whether Ref::apply_ev takes the event
RefApplies(n, ev) == ev.k = "User" /\ n.s.path # NoneV /\ ev.key = n.s.path.v

\* Ref::apply_ev: [n, out]
RefApplyEv(n, ev) ==
    IF RefApplies(n, ev)
    THEN [n |-> [n EXCEPT !.s.current = ev.value], out |-> ev.value]
    ELSE [n |-> n, out |-> NoneV]

\* Ref::set_ref: [c, n]
set_ref(c, n, path) ==
    LET old == n.s.path
        c1 == IF old = NoneV THEN c
              ELSE [c EXCEPT !.refs = SetRemove(@, old.v, n.id),
                             !.forward_refs =
                                 MapPut(@, n.id, [FwdEntry(@, n.id) EXCEPT
                                                     !.refs = @ \ {old.v}])]
        c2 == IF path = NoneV THEN c1
              ELSE [c1 EXCEPT !.refs = SetInsert(@, path.v, n.id),
                              !.forward_refs =
                                  MapPut(@, n.id, [FwdEntry(@, n.id) EXCEPT
                                                      !.refs = @ \cup {path.v}])]
    IN  [c |-> c2, n |-> [n EXCEPT !.s.path = path]]

RefInit(c, from, id, curs) ==
    Ret(set_ref(c, MkNode("ref", id, from,
                          [path |-> NoneV,
                           current |-> RefGetCurrent(c, RefGetPath(curs))]),
                RefGetPath(curs)),
        NoneV)

RefUpdate(c, n, ev, u) ==
    LET a0 == RefApplyEv(n, ev)
    IN  IF Len(n.args) # 1 THEN R(c, n, NoneV)
        ELSE IF u.outs[1] = NoneV THEN R(c, a0.n, a0.out)
        ELSE IF GetAsChars(u.outs[1]) = n.s.path THEN R(c, a0.n, a0.out)
        ELSE LET moved(r) ==
                     IF RefApplies(r.n, ev) THEN R(r.c, RefApplyEv(r.n, ev).n, ev.value)
                     ELSE R(r.c, [r.n EXCEPT !.s.current =
                                                 RefGetCurrent(r.c, r.n.s.path)],
                            RefGetCurrent(r.c, r.n.s.path))
             IN  moved(set_ref(c, n, GetAsChars(u.outs[1])))

\* ---- the dispatch over the registered functions
\* Node::current
Current(c, n) ==
    CASE n.fn = "const" -> n.s.val
      [] n.fn = "any" -> n.s.cur
      [] n.fn = "all" -> n.s.current
      [] n.fn = "eval" -> IF n.s.ok THEN Current(c, n.s.node) ELSE n.s.err
      [] n.fn = "load" -> LoadCurrent(c, n)
      [] n.fn = "load_var" -> LoadVarCurrent(c, n)
      [] n.fn = "store_var" -> StoreVarCurrent(c, n)
      [] n.fn = "call" -> RpcCallCurrent(c, n)
      [] n.fn = "ref" -> n.s.current
      [] n.fn = "uniq" -> n.s.cur
      [] n.fn = "store" -> StoreCurrent(c, n)
      [] n.fn = "sample" -> n.s.current

Currents(c, from) == [i \in 1..Len(from) |-> Current(c, from[i])]

\* Node::update of every child, left to right: [c, args, outs]
UpdateArgs(c, args, ev) ==
    IF args = <<>> THEN [c |-> c, args |-> <<>>, outs |-> <<>>]
    ELSE LET h == Update(c, Head(args), ev)
             t == UpdateArgs(h.c, Tail(args), ev)
         IN  [c |-> t.c, args |-> <<h.n>> \o t.args, outs |-> <<h.out>> \o t.outs]

\* the children Any::update updates: the filter_map over from is folded to
\* its end, so every child is updated
AnyArgs(c, args, ev) == UpdateArgs(c, args, ev)

\* the children Sample::update updates: the source and then the trigger
\* when it has the two; none otherwise
SampleArgs(c, args, ev) ==
    IF Len(args) = 2
    THEN LET src == Update(c, args[2], ev)
             trg == Update(src.c, args[1], ev)
         IN  [c |-> trg.c, args |-> <<trg.n, src.n>>, outs |-> <<trg.out, src.out>>]
    ELSE [c |-> c, args |-> args, outs |-> [i \in 1..Len(args) |-> NoneV]]

\* Node::update: the function's update, which updates the children itself
Update(c, n, ev) ==
    IF n.fn = "const" THEN R(c, n, NoneV)
    ELSE LET ua == IF n.fn = "any" THEN AnyArgs(c, n.args, ev)
                   ELSE IF n.fn = "sample" THEN SampleArgs(c, n.args, ev)
                   ELSE UpdateArgs(c, n.args, ev)
             u == [outs |-> ua.outs, curs |-> Currents(ua.c, ua.args)]
             n1 == [n EXCEPT !.args = ua.args]
         IN  CASE n.fn = "any" -> AnyUpdate(ua.c, n1, ev, u)
               [] n.fn = "all" -> CachedCurUpdate(ua.c, n1, ev, u)
               [] n.fn = "eval" -> EvalUpdate(ua.c, n1, ev, u)
               [] n.fn = "load" -> LoadUpdate(ua.c, n1, ev, u)
               [] n.fn = "load_var" -> LoadVarUpdate(ua.c, n1, ev, u)
               [] n.fn = "store_var" -> StoreVarUpdate(ua.c, n1, ev, u)
               [] n.fn = "call" -> RpcCallUpdate(ua.c, n1, ev, u)
               [] n.fn = "ref" -> RefUpdate(ua.c, n1, ev, u)
               [] n.fn = "uniq" -> UniqUpdate(ua.c, n1, ev, u)
               [] n.fn = "store" -> StoreUpdate(ua.c, n1, ev, u)
               [] n.fn = "sample" -> SampleUpdate(ua.c, n1, ev, u)

\* Node::compile of every argument, left to right: [c, ns]
CompileArgs(c, es, id) ==
    IF es = <<>> THEN [c |-> c, ns |-> <<>>]
    ELSE LET h == Compile(c, Head(es), id)
             t == CompileArgs(h.c, Tail(es), id)
         IN  [c |-> t.c, ns |-> <<h.n>> \o t.ns]

\* Node::compile: the arguments, then the function's init with them and the id
Compile(c, e, id) ==
    IF e.kind = "Constant" THEN R(c, MkNode("const", id, <<>>, [val |-> e.val]), NoneV)
    ELSE LET a == CompileArgs(c, e.args, id)
             curs == Currents(a.c, a.ns)
         IN  CASE e.function = "any" -> AnyInit(a.c, a.ns, id, curs)
               [] e.function = "all" -> CachedCurInit(a.c, a.ns, id, curs)
               [] e.function = "eval" -> EvalInit(a.c, a.ns, id, curs)
               [] e.function = "load" -> LoadInit(a.c, a.ns, id, curs)
               [] e.function = "load_var" -> LoadVarInit(a.c, a.ns, id, curs)
               [] e.function = "store_var" -> StoreVarInit(a.c, a.ns, id, curs)
               [] e.function = "call" -> RpcCallInit(a.c, a.ns, id, curs)
               [] e.function = "ref" -> RefInit(a.c, a.ns, id, curs)
               [] e.function = "uniq" -> UniqInit(a.c, a.ns, id, curs)
               [] e.function = "store" -> StoreInit(a.c, a.ns, id, curs)
               [] e.function = "sample" -> SampleInit(a.c, a.ns, id, curs)

-----------------------------------------------------------------------------
(* The container: its records, the DB and the publisher.                    *)

\* ContainerConfig.base_path
base_path == "/r"

\* enum Compiled
OnWrite(node) == [kind |-> "OnWrite", node |-> node, data_id |-> 0]
Formula(node, data_id) == [kind |-> "Formula", node |-> node, data_id |-> data_id]

\* enum Published; a Formula stands for the shared Fifo, whose two ExprIds
\* are kept in fifos under the id of the data Val
PublishedData(path, val) ==
    [kind |-> "Data", path |-> path, val |-> val, src |-> 0, on_write |-> 0]
PublishedFormula(path, data, src, on_write) ==
    [kind |-> "Formula", path |-> path, val |-> data, src |-> src,
     on_write |-> on_write]

\* enum LcEvent
RefsEv == [k |-> "Refs", name |-> "", args |-> <<>>, id |-> 0, result |-> NoneV]
RpcReplyEv(name, id, result) ==
    [k |-> "RpcReply", name |-> name, args |-> <<>>, id |-> id, result |-> result]

\* db::Datum
DatumData(v) == [kind |-> "Data", v |-> v, f |-> NoneV, w |-> NoneV]
DatumFormula(f, w) == [kind |-> "Formula", v |-> NoneV, f |-> f, w |-> w]

\* db::UpdateKind
Updated(v) == [k |-> "Updated", v |-> v]
Inserted(v) == [k |-> "Inserted", v |-> v]
Deleted == [k |-> "Deleted", v |-> NoneV]

\* db::Update, the change-log
EmptyPending ==
    [data |-> <<>>, formula |-> <<>>, on_write |-> <<>>, locked |-> <<>>,
     unlocked |-> <<>>]

\* rpcs::RpcRequest; formula and on_write are the Values made of the Chars
NoReq ==
    [kind |-> "", path |-> "", value |-> NoneV, formula |-> NoneV,
     on_write |-> NoneV, lock |-> FALSE, id |-> 0]

NoObs ==
    [last |-> EmptyMap, failed |-> {}, arm |-> "", iters |-> 0, calls |-> 0,
     posts |-> 0, turn |-> 0,
     total |-> 0, unposted |-> FALSE, batch |-> <<>>, log |-> EmptyPending,
     req |-> NoReq, reply |-> NoneV, mutated |-> FALSE, delivered |-> <<>>,
     written |-> <<>>, out |-> EmptyMap, ev |-> NoneV, sets |-> <<>>,
     writes |-> <<>>, drained |-> <<>>, issued |-> <<>>, surfaced |-> <<>>,
     rewrites |-> <<>>]

\* Container.rpcs is procs, the sender kept for each rpc name, as the id of
\* the task that holds the receiver; tasks are the spawned rpc_task futures:
\* at "new" before Proc::new returned, at "open" in the while loop, and gone
\* (with the receiver and what is queued in it) once the future returned
NoRpcs == [procs |-> EmptyMap, tasks |-> EmptyMap]

\* the order of the bytes that occur in paths
Alphabet == "-./0123456789abcdefghijklmnopqrstuvwxyz"

CharIdx(ch) == CHOOSE i \in 1..Len(Alphabet) : SubSeq(Alphabet, i, i) = ch

\* str::cmp: a <= b in the order of the bytes
StrLe(a, b) ==
    LET m == IF Len(a) < Len(b) THEN Len(a) ELSE Len(b)
        diff == {i \in 1..m : SubSeq(a, i, i) # SubSeq(b, i, i)}
        k == CHOOSE i \in diff : \A j \in diff : i <= j
    IN  IF diff = {} THEN Len(a) <= Len(b)
        ELSE CharIdx(SubSeq(a, k, k)) < CharIdx(SubSeq(b, k, k))

RECURSIVE SortPaths(_)
\* the paths of a set in ascending order, as the DB iterates its keys
SortPaths(ps) ==
    IF ps = {} THEN <<>>
    ELSE LET p == CHOOSE x \in ps : \A y \in ps : StrLe(x, y)
         IN  <<p>> \o SortPaths(ps \ {p})

RECURSIVE SortIds(_)
\* the ids of a set in ascending order
SortIds(ids) ==
    IF ids = {} THEN <<>>
    ELSE LET i == CHOOSE x \in ids : \A y \in ids : x <= y
         IN  <<i>> \o SortIds(ids \ {i})

\* ---- the DB
\* Db::lookup
db_lookup(c, path) == IF Has(c.db, path) THEN c.db[path] ELSE NoneV

\* Db::set_data: the row becomes Data(value); the change is logged when
\* update is set, as Updated over a Data row and as Inserted otherwise
db_set_data(c, update, path, value) ==
    [c EXCEPT !.db = MapPut(@, path, DatumData(value)),
              !.pending.data =
                  IF ~update THEN @
                  ELSE IF Has(c.db, path) /\ c.db[path].kind = "Data"
                  THEN Append(@, <<path, Updated(value)>>)
                  ELSE Append(@, <<path, Inserted(value)>>)]

\* Db::set_formula: a Formula row keeps its on-write source (Updated); any
\* other path becomes a Formula row with a Null on-write source (Inserted)
db_set_formula(c, path, value) ==
    IF Has(c.db, path) /\ c.db[path].kind = "Formula"
    THEN [c EXCEPT !.db = MapPut(@, path, DatumFormula(value, c.db[path].w)),
                   !.pending.formula = Append(@, <<path, Updated(value)>>)]
    ELSE [c EXCEPT !.db = MapPut(@, path, DatumFormula(value, Null)),
                   !.pending.formula = Append(@, <<path, Inserted(value)>>)]

\* Db::set_on_write: as set_formula, for the on-write source
db_set_on_write(c, path, value) ==
    IF Has(c.db, path) /\ c.db[path].kind = "Formula"
    THEN [c EXCEPT !.db = MapPut(@, path, DatumFormula(c.db[path].f, value)),
                   !.pending.on_write = Append(@, <<path, Updated(value)>>)]
    ELSE [c EXCEPT !.db = MapPut(@, path, DatumFormula(Null, value)),
                   !.pending.on_write = Append(@, <<path, Inserted(value)>>)]

\* Db::remove: the row goes, and Deleted is logged in the list of its kind
db_remove(c, path) ==
    IF ~Has(c.db, path) THEN c
    ELSE IF c.db[path].kind = "Data"
    THEN [c EXCEPT !.db = MapDel(@, path),
                   !.pending.data = Append(@, <<path, Deleted>>)]
    ELSE [c EXCEPT !.db = MapDel(@, path),
                   !.pending.formula = Append(@, <<path, Deleted>>)]

RECURSIVE RemoveAll(_, _)
RemoveAll(c, paths) ==
    IF paths = <<>> THEN c ELSE RemoveAll(db_remove(c, Head(paths)), Tail(paths))

\* Db::remove_subtree: every row at or below path
db_remove_subtree(c, path) ==
    RemoveAll(c, SortPaths({p \in DOMAIN c.db : IsParent(path, p)}))

\* Db::set_locked, Db::set_unlocked
db_set_locked(c, path) == [c EXCEPT !.pending.locked = Append(@, path)]
db_set_unlocked(c, path) == [c EXCEPT !.pending.unlocked = Append(@, path)]

RECURSIVE CreateCells(_, _)
CreateCells(c, paths) ==
    IF paths = <<>> THEN c
    ELSE CreateCells(db_set_data(c, TRUE, Head(paths), Null), Tail(paths))

\* the cells of a sheet or table: one per row and column name
Cells(path, rows, columns) ==
    {PathAppend(PathAppend(path, r), k) : r \in rows, k \in columns}

\* Db::create_table: a Null cell per row and column, locked when asked
db_create_table(c, path, rows, columns, lock) ==
    CreateCells(IF lock THEN db_set_locked(c, path) ELSE c,
                SortPaths(Cells(path, rows, columns)))

\* Db::create_sheet: a table whose rows and columns are numbered
db_create_sheet(c, path, rows, columns, lock) ==
    db_create_table(c, path, {"0"}, {"0"}, lock)

\* ---- the publisher
\* whether a Val is published at path
PublishedAt(c, path) == \E id \in DOMAIN c.vals : c.vals[id].path = path

\* Publisher::publish: a new Val, whose id is c.next_id.val
Publish(c, path, value) ==
    [c EXCEPT !.vals = MapPut(@, c.next_id.val, [path |-> path, v |-> value]),
              !.next_id.val = @ + 1]

\* Val::update(batch, value)
ValUpdate(c, id, value) == [c EXCEPT !.batch = Append(@, <<id, value>>)]

\* the last update a batch holds for the Val id, 0 when it holds none
LastUpdate(batch, id) ==
    LET at == {i \in 1..Len(batch) : batch[i][1] = id}
    IN  IF at = {} THEN 0 ELSE CHOOSE i \in at : \A j \in at : j <= i

\* the updates of a batch reach the Vals in the order they were queued: a
\* Val is left with the last value the batch holds for it
ApplyBatch(vs, batch) ==
    [id \in DOMAIN vs |->
        IF LastUpdate(batch, id) = 0 THEN vs[id]
        ELSE [vs[id] EXCEPT !.v = batch[LastUpdate(batch, id)][2]]]

\* a commit that would leave the updates of the batch behind
CommitNothing(c) == c

\* UpdateBatch::commit
Commit(c) == [c EXCEPT !.vals = ApplyBatch(@, c.batch)]

\* the Val ids the records of by_id and by_path hold
HeldBy(p) == IF p.kind = "Data" THEN {p.val} ELSE {p.val, p.src, p.on_write}
HeldIds(c) ==
    UNION ({HeldBy(c.by_id[i]) : i \in DOMAIN c.by_id}
           \cup {HeldBy(c.by_path[q]) : q \in DOMAIN c.by_path})

\* a Val is unpublished, and a Fifo freed, when the last record that holds
\* it is dropped
DropUnheld(c) ==
    [c EXCEPT !.vals = [i \in DOMAIN @ \cap HeldIds(c) |-> @[i]],
              !.fifos = [i \in DOMAIN @ \cap HeldIds(c) |-> @[i]]]

\* to_chars
to_chars(value) == CastToChars(value)

\* check_path
check_path(path) == StartsWith(path, base_path)

-----------------------------------------------------------------------------
(* The functions on their own: expressions are compiled against an empty    *)
(* index, their nodes are updated with events, and they are destroyed with  *)
(* unref, as the container does for a formula (change_formula,              *)
(* remove_deleted_published).                                               *)

MaxExprId == 3
MaxSubId == 2
MaxCallId == 2
MaxLive == 1
\* how many values a store or store_var without target may hold
MaxStored == 2

InitVm ==
    /\ pc = "vm"
    /\ var = EmptyMap /\ sub = EmptyMap /\ rpc = EmptyMap /\ refs = EmptyMap
    /\ forward_refs = EmptyMap
    /\ var_updates = <<>> /\ ref_updates = <<>>
    /\ variables = EmptyMap
    /\ events = <<>>
    /\ by_id = EmptyMap /\ by_path = EmptyMap
    /\ db = EmptyMap /\ pending = EmptyPending
    /\ vals = EmptyMap /\ dvals = EmptyMap
    /\ compiled = EmptyMap
    /\ locked = {}
    /\ fifos = EmptyMap
    /\ next_id = [expr |-> 1, sub |-> 1, val |-> 1, call |-> 1, task |-> 1]
    /\ rpcs = NoRpcs
    /\ ctrl_c = FALSE
    /\ inputs = 0
    /\ obs = NoObs
    /\ channel = NoChannel /\ resolver = NoResolver

VmSources ==
    {SrcRefVar, SrcLoadVar, SrcCallVar, SrcEvalVar, SrcAny, SrcAll, SrcAnyEval,
     SrcUniqUniq, SrcStorePx, SrcStoreVarPx, SrcSample, SrcSampleOne}

VmEvents ==
    {EvVariable("px", Str(p)) : p \in {"/r/a", "/r/b", "xb"}}
    \cup {EvVariable("sx", Str(x)) : x \in {SrcConst, SrcNull, SrcBad}}
    \cup {EvVariable("xa", U64(x)) : x \in {"1", "2"}}
    \cup {EvVariable("xb", U64("1"))}
    \cup {EvUser("/r/a", U64("1"))}
    \cup {EvNetidx(i, U64("1")) : i \in DOMAIN dvals}
    \cup {EvRpc("/r/a", 1, U64("1"))}

IdsLeft ==
    /\ next_id.expr <= MaxExprId
    /\ next_id.sub <= MaxSubId
    /\ next_id.call <= MaxCallId

\* the store and store_var nodes of the context hold no more values than
\* the model allows
StoredBounded(c) ==
    \A id \in DOMAIN c.compiled :
        c.compiled[id].node.fn \in {"store", "store_var"} =>
            Len(c.compiled[id].node.s.queued) <= MaxStored

\* the host takes the variable updates and the writes the step queued
Taken(c) == [c EXCEPT !.var_updates = <<>>]

\* the compiled node r.n is kept under id
VmCompiled(id, r) ==
    /\ Becomes(Taken([r.c EXCEPT !.compiled = MapPut(@, id, OnWrite(r.n))]))
    /\ obs' = [obs EXCEPT !.last = MapPut(@, id, Current(r.c, r.n)),
                           !.out = MapPut(@, id, NoneV), !.ev = NoneV,
                           !.sets = r.c.var_updates, !.writes = r.c.dv_writes]

\* the host compiles a parsed expression under its ExprId
VmCompile(src) ==
    /\ pc = "vm"
    /\ IdsLeft
    /\ Cardinality(DOMAIN compiled) < MaxLive
    /\ VmCompiled(next_id.expr,
                  Compile([St EXCEPT !.next_id.expr = @ + 1], ParseExpr(src),
                          next_id.expr))
    /\ UNCHANGED <<pc, ctrl_c, inputs>>

RECURSIVE VmUpdateAll(_, _, _, _)
\* update the nodes of ids, in the order of their ids: [c, outs]
VmUpdateAll(c, ids, ev, outs) ==
    IF ids = {} THEN [c |-> c, outs |-> outs]
    ELSE LET id == CHOOSE i \in ids : \A j \in ids : i <= j
             updated(r) ==
                 VmUpdateAll([r.c EXCEPT !.compiled[id].node = r.n], ids \ {id}, ev,
                             MapPut(outs, id, r.out))
         IN  updated(Update(c, c.compiled[id].node, ev))

\* what the subscriber and the variable table hold when the event is delivered
Delivered(c, ev) ==
    IF ev.k = "Variable" THEN [c EXCEPT !.variables = MapPut(@, ev.key, ev.value)]
    ELSE IF ev.k = "Netidx" THEN [c EXCEPT !.dvals[ev.id].last = ev.value]
    ELSE c

EvalFailed(c) ==
    {id \in DOMAIN c.compiled :
        /\ c.compiled[id].node.fn = "eval"
        /\ ~c.compiled[id].node.s.ok
        /\ c.compiled[id].node.s.err.t = "Error"}

\* every node was updated with ev: r is the context and what each update
\* returned
VmUpdated(r, ev) ==
    /\ StoredBounded(r.c)
    /\ Becomes(Taken(r.c))
    /\ obs' = [obs EXCEPT
           !.last = [id \in DOMAIN compiled |->
                        IF IsSome(r.outs[id]) THEN r.outs[id] ELSE obs.last[id]],
           !.failed = @ \cup EvalFailed(r.c),
           !.out = r.outs, !.ev = ev,
           !.sets = r.c.var_updates, !.writes = r.c.dv_writes]

\* the host delivers one event to every compiled node
VmUpdate(ev) ==
    /\ pc = "vm"
    /\ IdsLeft
    /\ compiled # EmptyMap
    /\ VmUpdated(VmUpdateAll(Delivered(St, ev), DOMAIN compiled, ev, EmptyMap), ev)
    /\ UNCHANGED <<pc, ctrl_c, inputs>>

\* the host destroys an expression: unref, then the node is dropped
VmUnref(id) ==
    /\ pc = "vm"
    /\ Has(compiled, id)
    /\ Becomes([unref(St, id) EXCEPT !.compiled = MapDel(@, id)])
    /\ obs' = [obs EXCEPT !.last = MapDel(@, id), !.failed = @ \ {id},
                           !.out = MapDel(@, id), !.ev = NoneV,
                           !.sets = <<>>, !.writes = <<>>]
    /\ UNCHANGED <<pc, ctrl_c, inputs>>

NextVm ==
    \/ \E src \in VmSources : VmCompile(src)
    \/ \E ev \in VmEvents : VmUpdate(ev)
    \/ \E id \in DOMAIN compiled : VmUnref(id)

SpecVm == InitVm /\ [][NextVm]_vars

-----------------------------------------------------------------------------
(* Properties of the functions on their own.                                *)

\* C2: compiling an expression, updating its node and later calling unref
\* with its id leaves var, sub, rpc, refs and forward_refs as they were
\* before it was compiled: once no compiled expression is left, the five
\* tables are empty again, no key and no ExprId remains.
C2_UnrefRestoresIndices ==
    (pc = "vm" /\ compiled = EmptyMap) =>
        /\ var = EmptyMap
        /\ sub = EmptyMap
        /\ rpc = EmptyMap
        /\ refs = EmptyMap
        /\ forward_refs = EmptyMap

\* C3: current() of an any or all node is the last non-None value its update
\* returned, or its initial value when update returned none so far; an
\* update that returns None leaves current() alone.
C3_CurrentIsLastReturned ==
    \A id \in DOMAIN compiled :
        (pc = "vm" /\ compiled[id].node.fn \in {"any", "all"}) =>
            Current(St, compiled[id].node) = obs.last[id]

\* the source the variable sx holds, which load_var("sx") hands to eval
EvalSource == variables["sx"].v

\* C10: an eval node follows the last source its child delivered, whatever
\* the sources before it were: when that source parses, the node holds the
\* compiled expression and its value is that expression's; when it does not
\* parse, the node's value is the Error that names the parse failure.
C10_EvalFollowsSource ==
    \A id \in DOMAIN compiled :
        (pc = "vm" /\ compiled[id].node.fn = "eval" /\ Has(variables, "sx")) =>
            IF ParseOk(EvalSource)
            THEN /\ compiled[id].node.s.ok
                 /\ Current(St, compiled[id].node)
                        = Current(St, Compile(St, ParseExpr(EvalSource), 0).n)
            ELSE /\ ~compiled[id].node.s.ok
                 /\ Current(St, compiled[id].node) = EvalParseError(EvalSource)
                 /\ Current(St, compiled[id].node).t = "Error"

\* an eval node that failed on a source that does not parse and now holds
\* the expression compiled from a later source
C10_RecoveredAfterFailure ==
    \E id \in DOMAIN compiled :
        /\ pc = "vm"
        /\ compiled[id].node.fn = "eval"
        /\ id \in obs.failed
        /\ compiled[id].node.s.ok
        /\ Current(St, compiled[id].node) = U64("42")

\* the context in which the node of id is updated with ev: the event was
\* delivered and the nodes of the smaller ids were updated
BeforeUpdate(id, ev) ==
    VmUpdateAll(Delivered(St, ev), {j \in DOMAIN compiled : j < id}, ev, EmptyMap).c

\* out is what the leftmost child that returned Some returned, None when no
\* child returned Some
Leftmost(outs, out) ==
    \/ \E i \in 1..Len(outs) :
           /\ IsSome(outs[i]) /\ out = outs[i]
           /\ \A j \in 1..(i - 1) : ~IsSome(outs[j])
    \/ /\ \A i \in 1..Len(outs) : ~IsSome(outs[i])
       /\ out = NoneV

\* C20: when an event is delivered, an any node returns what the leftmost of
\* its children that returned Some in that tick returned, and None when no
\* child returned Some; every child was updated with the event, whichever
\* child gave the node's value.
C20_AnyReturnsLeftmost ==
    [][\A id \in DOMAIN compiled :
          (pc = "vm" /\ obs'.ev # NoneV /\ compiled[id].node.fn = "any") =>
              \E u \in {UpdateArgs(BeforeUpdate(id, obs'.ev),
                                   compiled[id].node.args, obs'.ev)} :
                  /\ Leftmost(u.outs, obs'.out[id])
                  /\ compiled'[id].node.args = u.args]_vars

\* an any node whose two children both returned Some for the last event: the
\* eval that has no source returned its error, load_var the new value of xa
C20_BothChildrenReturned ==
    \E id \in DOMAIN compiled :
        /\ pc = "vm"
        /\ compiled[id].node.fn = "any"
        /\ obs.ev = EvVariable("xa", U64("2"))
        /\ compiled[id].node.args[1].fn = "eval"
        /\ ~compiled[id].node.args[1].s.ok
        /\ compiled[id].node.args[2].s.cur = U64("2")
        /\ obs.out[id] = compiled[id].node.args[1].s.err

\* the nodes uniq(uniq(x)): a uniq whose child is a uniq
UniqOfUniq ==
    {id \in DOMAIN compiled :
        /\ compiled[id].node.fn = "uniq"
        /\ Len(compiled[id].node.args) = 1
        /\ compiled[id].node.args[1].fn = "uniq"}

\* C21: uniq passes an update of its child only when the value differs from
\* the last value it passed, and uniq(uniq(x)) is uniq(x): for every event,
\* the outer uniq of uniq(uniq(x)) returns what its child, which is uniq(x)
\* on the same stream, returns, and the two have the same current value.
C21_UniqIdempotent ==
    [][\A id \in UniqOfUniq :
          (pc = "vm" /\ obs'.ev # NoneV) =>
              \E r \in {Update(BeforeUpdate(id, obs'.ev),
                               compiled[id].node.args[1], obs'.ev)} :
                  /\ obs'.out[id] = r.out
                  /\ compiled'[id].node.args[1] = r.n
                  /\ compiled'[id].node.s.cur = r.n.s.cur
                  /\ IsSome(obs'.out[id]) => obs'.out[id] # obs.last[id]]_vars

\* uniq(uniq(x)) holds the value 1 and has just suppressed an update of x
\* that repeats it
C21_RepeatSuppressed ==
    \E id \in UniqOfUniq :
        /\ pc = "vm"
        /\ obs.ev = EvVariable("xa", U64("1"))
        /\ obs.out[id] = NoneV
        /\ obs.last[id] = U64("1")
        /\ compiled[id].node.args[1].s.cur = U64("1")

\* the store and store_var nodes with a target and a value argument
Stores ==
    {id \in DOMAIN compiled :
        /\ compiled[id].node.fn \in {"store", "store_var"}
        /\ Len(compiled[id].node.args) = 2}

\* whether the node has a target: a Dval for store, a name for store_var
Bound(n) == IF n.fn = "store" THEN n.s.dv # 0 ELSE n.s.name # NoneV

\* whether the value names a valid target for the node
ValidTarget(n, o) ==
    IF n.fn = "store" THEN Pathname(o).p # NoneV ELSE Varname(o).n # NoneV

\* the values the step wrote to the node's target, in the order of the writes
WrittenValues(n, o) ==
    IF n.fn = "store" THEN [i \in 1..Len(o.writes) |-> o.writes[i][2]]
    ELSE [i \in 1..Len(o.sets) |-> o.sets[i][2]]

C30_ChildrenUpdatedFirst ==
    [][\A id \in DOMAIN compiled :
          (pc = "vm" /\ obs'.ev # NoneV /\ compiled[id].node.fn # "const") =>
              \E u \in {UpdateArgs(BeforeUpdate(id, obs'.ev),
                                   compiled[id].node.args, obs'.ev)} :
                  /\ compiled'[id].node.args = u.args
                  /\ (/\ compiled[id].node.fn = "sample"
                      /\ Len(u.args) = 2
                      /\ IsSome(u.outs[1]))
                        => obs'.out[id] = Current(u.c, u.args[2])]_vars

\* the ExprIds a reverse map holds under a key
Holders(tbl, key) == IF Has(tbl, key) THEN tbl[key] ELSE {}

\* the keys of a reverse map and of its bucket in forward_refs
KeysOf(tbl, fwd, bucket) ==
    DOMAIN tbl \cup UNION {fwd[e][bucket] : e \in DOMAIN fwd}

\* a reverse map and its bucket of forward_refs hold the same pairs
Mirrors(tbl, fwd, bucket) ==
    \A key \in KeysOf(tbl, fwd, bucket) :
        \A e \in DOMAIN fwd \cup Holders(tbl, key) :
            e \in Holders(tbl, key) <=> (Has(fwd, e) /\ key \in fwd[e][bucket])

\* the reverse maps and forward_refs of the context are in sync
InSync(c) ==
    /\ Mirrors(c.var, c.forward_refs, "vars")
    /\ Mirrors(c.sub, c.forward_refs, "subs")
    /\ Mirrors(c.rpc, c.forward_refs, "rpcs")
    /\ Mirrors(c.refs, c.forward_refs, "refs")

\* the ExprIds and the keys the single operations are tried with
SomeExprIds == DOMAIN forward_refs \cup {next_id.expr}
SomePaths == {"/r/a", "/r/b"}

\* the compiled nodes that are a ref
RefNodes == {compiled[id].node : id \in {i \in DOMAIN compiled :
                                             compiled[i].node.fn = "ref"}}

\* C23: after every single index operation (durable_subscribe, ref_var,
\* call_rpc, Ref::set_ref, unref) the reverse maps and forward_refs are in
\* sync in both directions: an ExprId e is in var, sub, rpc or refs under a
\* key exactly when the key is in the matching bucket of forward_refs[e].
\* The tables of every reachable state are in sync, and so are the tables
\* each of the operations leaves when it is applied to them.
C23_IndexInSync ==
    pc = "vm" =>
        /\ InSync(St)
        /\ \A e \in SomeExprIds :
               /\ InSync(unref(St, e))
               /\ \A p \in SomePaths :
                      /\ InSync(durable_subscribe(St, p, e))
                      /\ InSync(call_rpc(St, p, <<>>, e, next_id.call))
               /\ \A name \in VarNames : InSync(ref_var(St, name, e))
        /\ \A n \in RefNodes :
               \A path \in {NoneV} \cup {Str(p) : p \in SomePaths} :
                   InSync(set_ref(St, n, path).c)

\* a ref that moved from /r/a to /r/b: set_ref took its ExprId out of
\* refs[/r/a] and put it into refs[/r/b], and forward_refs follows
C23_RefMoved ==
    \E id \in DOMAIN compiled :
        /\ pc = "vm"
        /\ compiled[id].node.fn = "ref"
        /\ compiled[id].node.s.path = Str("/r/b")
        /\ Has(refs, "/r/a") /\ id \notin refs["/r/a"]
        /\ id \in Holders(refs, "/r/b")
        /\ forward_refs[id].refs = {"/r/b"}

RECURSIVE TreeNodes(_)
\* the nodes of the tree rooted at n; an eval holds the node it compiled
TreeNodes(n) ==
    {n} \cup UNION {TreeNodes(n.args[i]) : i \in 1..Len(n.args)}
        \cup (IF n.fn = "eval" /\ n.s.ok THEN TreeNodes(n.s.node) ELSE {})

\* whether the node now depends on the key of the bucket: a ref on its path,
\* a load or store on its Dval, a call on its rpc name, a load_var on its
\* variable
DependsOn(n, bucket, key) ==
    CASE bucket = "refs" -> n.fn = "ref" /\ n.s.path = Str(key)
      [] bucket = "subs" -> \/ n.fn = "load" /\ n.s.cur = key
                            \/ n.fn = "store" /\ n.s.dv = key
      [] bucket = "rpcs" -> /\ n.fn = "call"
                            /\ Len(n.s.args) > 0
                            /\ n.s.args[1] # NoneV
                            /\ CastToChars(n.s.args[1]) = key
      [] bucket = "vars" -> n.fn = "load_var" /\ n.s.name = Str(key)

\* every entry of the reverse map is backed by a node of the compiled tree
Backed(tbl, bucket) ==
    \A key \in DOMAIN tbl :
        \A e \in tbl[key] :
            /\ Has(compiled, e)
            /\ \E n \in TreeNodes(compiled[e].node) : DependsOn(n, bucket, key)

\* C24: for every entry key -> expr_id of var, sub, rpc or refs, the compiled
\* tree rooted at expr_id has a node that now depends on the key; once a
\* load, call or ref node changed its path or name, no entry for the old key
\* and that ExprId is left.
C24_NoStaleEntries ==
    pc = "vm" =>
        /\ Backed(var, "vars")
        /\ Backed(sub, "subs")
        /\ Backed(rpc, "rpcs")
        /\ Backed(refs, "refs")

\* whether the event is addressed to the node: a variable event to the
\* load_var of the name, a user event to the ref of the path, a netidx event
\* to the load of the Dval, an rpc event to the call of the name
Addresses(n, ev) ==
    CASE n.fn = "load_var" ->
             ev.k = "Variable" /\ n.s.name # NoneV /\ n.s.name.v = ev.key
      [] n.fn = "ref" -> RefApplies(n, ev)
      [] n.fn = "load" -> ev.k = "Netidx" /\ n.s.cur # 0 /\ n.s.cur = ev.id
      [] n.fn = "call" -> ev.k = "Rpc" /\ DependsOn(n, "rpcs", ev.key)
      [] OTHER -> FALSE

\* C31: an update returns Some only for an event that reaches the tree: when
\* the event is addressed to no node of the expression, neither as it was
\* before the update nor as it is after, no child changes and the update of
\* the expression returns None.
C31_SomeOnlyOnChange ==
    [][\A id \in DOMAIN compiled :
          (pc = "vm" /\ obs'.ev # NoneV /\ IsSome(obs'.out[id])) =>
              \E n \in TreeNodes(compiled[id].node) \cup TreeNodes(compiled'[id].node) :
                  Addresses(n, obs'.ev)]_vars

-----------------------------------------------------------------------------
(* The container's handlers.  Each takes the context c and gives the        *)
(* context it leaves.                                                       *)

\* how many LcEvent::Refs the model keeps in the event queue: the queue of
\* the code is unbounded, a Refs posted beyond that many repeats their work
MaxRefsQueued == 2

\* the iterations update_refs allows itself
RefsBudget == 10

QueuesEmpty(c) == c.ref_updates = <<>> /\ c.var_updates = <<>>

RefsQueued(evs) == Cardinality({i \in 1..Len(evs) : evs[i].k = "Refs"})

\* the ExprIds a reverse index holds for a key, in the order they are visited
IdsOf(tbl, key) == IF Has(tbl, key) THEN SortIds(tbl[key]) ELSE <<>>

\* update_expr_ids, one ExprId: r is what its node's update returned
ExprUpdated(expr_id, r) ==
    IF /\ r.c.compiled[expr_id].kind = "Formula"
       /\ IsSome(r.out)
       /\ Has(r.c.by_id, r.c.compiled[expr_id].data_id)
    THEN [r.c EXCEPT
             !.compiled[expr_id].node = r.n,
             !.batch = Append(@, <<r.c.by_id[r.c.compiled[expr_id].data_id].val,
                                   r.out>>),
             !.ref_updates =
                 Append(@, <<r.c.by_id[r.c.compiled[expr_id].data_id].path, r.out>>)]
    ELSE [r.c EXCEPT !.compiled[expr_id].node = r.n]

\* the record that the update of expr_id with an rpc reply returned Some
Surfaced(c, expr_id, event, out) ==
    IF event.k = "Rpc" /\ IsSome(out)
    THEN [c EXCEPT !.surfaced = Append(@, <<expr_id, event.id>>)]
    ELSE c

RECURSIVE update_expr_ids(_, _, _)
\* Container::update_expr_ids
update_expr_ids(c, ids, event) ==
    IF ids = <<>> THEN c
    ELSE IF ~Has(c.compiled, Head(ids)) THEN update_expr_ids(c, Tail(ids), event)
    ELSE update_expr_ids(
             Only({Surfaced(ExprUpdated(Head(ids), r), Head(ids), event, r.out) :
                      r \in {Update(c, c.compiled[Head(ids)].node, event)}}),
             Tail(ids), event)

\* the record of a point of an iteration of update_refs, with the two queues
\* as they are there: "iter" where the iteration starts, "vars" where it turns
\* to the var_updates, "end" where it ends
Mark(k, c) == [k |-> k, refs |-> c.ref_updates, vars |-> c.var_updates, u |-> <<>>]

\* the record of the update u that a for loop of update_refs processes
Took(which, u) == [k |-> which, refs |-> <<>>, vars |-> <<>>, u |-> u]

RECURSIVE DrainUpdates(_, _, _)
\* the two for loops of an iteration of update_refs over the queue q it
\* took: the ref_updates (which = "refs"), and once they are done the
\* var_updates it takes then (which = "vars")
DrainUpdates(c, which, q) ==
    IF q = <<>>
    THEN IF which = "refs"
         THEN DrainUpdates([c EXCEPT !.var_updates = <<>>,
                                     !.drained = Append(@, Mark("vars", c))],
                           "vars", c.var_updates)
         ELSE [c EXCEPT !.drained = Append(@, Mark("end", c))]
    ELSE Only({DrainUpdates(c1, which, Tail(q)) :
                  c1 \in {update_expr_ids(
                              [c EXCEPT !.drained = Append(@, Took(which, Head(q)))],
                              IdsOf(IF which = "refs" THEN c.refs ELSE c.var,
                                    Head(q)[1]),
                              IF which = "refs" THEN EvUser(Head(q)[1], Head(q)[2])
                              ELSE EvVariable(Head(q)[1], Head(q)[2]))}})

\* an iteration that would turn to the var_updates while the ref_updates it
\* found are still queued
IterationVarsOnly(c) ==
    DrainUpdates([c EXCEPT !.var_updates = <<>>,
                           !.drained = Append(@, Mark("iter", c))],
                 "vars", c.var_updates)

\* one iteration of the loop of update_refs
UpdateRefsIteration(c) ==
    DrainUpdates([c EXCEPT !.ref_updates = <<>>,
                           !.drained = Append(@, Mark("iter", c))],
                 "refs", c.ref_updates)

\* the loop condition of update_refs
UpdateRefsContinues(c, n) == n < RefsBudget /\ ~QueuesEmpty(c)

\* update_refs posts nothing
PostRefsNever(c) == c

\* events.unbounded_send(LcEvent::Refs)
PostRefs(c) ==
    [c EXCEPT !.events = IF RefsQueued(@) < MaxRefsQueued THEN Append(@, RefsEv)
                         ELSE @,
              !.posts = @ + 1]

\* what update_refs leaves after n iterations, with what it did recorded
UpdateRefsDone(c, n) ==
    LET recorded(c1) ==
            [c1 EXCEPT !.iters = IF n > @ THEN n ELSE @,
                       !.total = @ + n,
                       !.calls = @ + 1,
                       !.unposted = @ \/ (~QueuesEmpty(c) /\ c1.posts = c.posts)]
    IN  recorded(IF ~QueuesEmpty(c) THEN PostRefs(c) ELSE c)

RECURSIVE UpdateRefsLoop(_, _)
UpdateRefsLoop(c, n) ==
    IF UpdateRefsContinues(c, n)
    THEN Only({UpdateRefsLoop(c1, n + 1) : c1 \in {UpdateRefsIteration(c)}})
    ELSE UpdateRefsDone(c, n)

\* Container::update_refs
update_refs(c) == Only({UpdateRefsLoop(c0, 0) : c0 \in {c}})

\* Node::compile of a source that parsed; nothing for one that did not
CompileParsed(c, txt, id) ==
    IF ParseOk(CastToChars(txt)) THEN Compile(c, ParseExpr(CastToChars(txt)), id)
    ELSE R(c, NoNode, NoneV)

\* n.current().unwrap_or(Value::Null)
CurrentOrNull(c, n) == IF IsSome(Current(c, n)) THEN Current(c, n) ELSE Null

\* publish_formula once both sources were parsed and compiled: fnode and
\* wnode are the nodes, NoNode for a source that did not parse
PublishFormulaNodes(c, path, formula_txt, on_write_txt, expr_id, on_write_expr_id,
                    fnode, wnode) ==
    LET value == IF fnode = NoNode THEN Null ELSE CurrentOrNull(c, fnode)
        src_path == PathAppend(path, ".formula")
        on_write_path == PathAppend(path, ".on-write")
        data == c.next_id.val
        src == c.next_id.val + 1
        on_write == c.next_id.val + 2
        published == PublishedFormula(path, data, src, on_write)
        c1 == [c EXCEPT
                  !.vals = MapPut(MapPut(MapPut(@,
                               data, [path |-> path, v |-> value]),
                               src, [path |-> src_path, v |-> formula_txt]),
                               on_write, [path |-> on_write_path, v |-> on_write_txt]),
                  !.next_id.val = @ + 3,
                  !.fifos = MapPut(@, data, [expr_id |-> expr_id,
                                             on_write_expr_id |-> expr_id]),
                  !.by_id = MapPut(MapPut(MapPut(@, data, published),
                                          src, published), on_write, published),
                  !.by_path = MapPut(MapPut(MapPut(@, path, published),
                                            src_path, published),
                                     on_write_path, published)]
    IN  IF \/ PublishedAt(c, path)
           \/ PublishedAt(c, src_path)
           \/ PublishedAt(c, on_write_path)
        THEN c
        ELSE IF fnode = NoNode \/ wnode = NoNode THEN c1
        ELSE update_refs(
                 [c1 EXCEPT
                     !.compiled = MapPut(MapPut(@, expr_id, Formula(fnode, data)),
                                         on_write_expr_id, OnWrite(wnode)),
                     !.fifos = MapPut(@, data,
                                      [expr_id |-> expr_id,
                                       on_write_expr_id |-> on_write_expr_id]),
                     !.batch = Append(@, <<data, value>>),
                     !.ref_updates = @ \o <<<<path, value>>,
                                            <<src_path, formula_txt>>,
                                            <<on_write_path, on_write_txt>>>>])

\* Container::publish_formula: the formula takes the next ExprId and the
\* on-write source the one after it
publish_formula(c, path, formula_txt, on_write_txt) ==
    LET expr_id == c.next_id.expr
        on_write_expr_id == c.next_id.expr + 1
    IN  Only({Only({PublishFormulaNodes(w.c, path, formula_txt, on_write_txt,
                                        expr_id, on_write_expr_id, f.n, w.n) :
                       w \in {CompileParsed(f.c, on_write_txt, on_write_expr_id)}}) :
                 f \in {CompileParsed([c EXCEPT !.next_id.expr = @ + 2],
                                      formula_txt, expr_id)}})

\* Container::publish_data
publish_data(c, path, value) ==
    IF PublishedAt(c, path) THEN c
    ELSE [c EXCEPT
             !.vals = MapPut(@, c.next_id.val, [path |-> path, v |-> value]),
             !.next_id.val = @ + 1,
             !.by_id = MapPut(@, c.next_id.val, PublishedData(path, c.next_id.val)),
             !.by_path = MapPut(@, path, PublishedData(path, c.next_id.val))]

RECURSIVE InitRows(_, _)
\* the loop of Container::init over the rows of the DB
InitRows(c, paths) ==
    IF paths = <<>> THEN c
    ELSE IF ~check_path(Head(paths)) THEN [c EXCEPT !.panicked = TRUE]
    ELSE IF c.db[Head(paths)].kind = "Data" THEN InitRows(c, Tail(paths))
    ELSE Only({InitRows(c1, Tail(paths)) :
                  c1 \in {publish_formula(c, Head(paths), c.db[Head(paths)].f,
                                          c.db[Head(paths)].w)}})

\* Container::init
init(c) == Commit(InitRows(c, SortPaths(DOMAIN c.db)))

\* the subscriber keeps the last value of the Dval
DvalUpdated(c, id, value) ==
    IF Has(c.dvals, id) THEN [c EXCEPT !.dvals[id].last = value] ELSE c

RECURSIVE SubscriptionUpdates(_, _)
SubscriptionUpdates(c, updates) ==
    IF updates = <<>> THEN c
    ELSE Only({SubscriptionUpdates(c1, Tail(updates)) :
                  c1 \in {update_expr_ids(
                              DvalUpdated(c, Head(updates)[1], Head(updates)[2]),
                              IdsOf(c.sub, Head(updates)[1]),
                              EvNetidx(Head(updates)[1], Head(updates)[2]))}})

\* Container::process_subscriptions
process_subscriptions(c, updates) == update_refs(SubscriptionUpdates(c, updates))

\* the ExprIds that compiled, the reverse indices and forward_refs of the
\* context hold
RegisteredIn(c) ==
    DOMAIN c.compiled \cup DOMAIN c.forward_refs
        \cup UNION {c.var[k] : k \in DOMAIN c.var}
        \cup UNION {c.sub[k] : k \in DOMAIN c.sub}
        \cup UNION {c.rpc[k] : k \in DOMAIN c.rpc}
        \cup UNION {c.refs[k] : k \in DOMAIN c.refs}

\* the context in which the new source of a cell is compiled, with the record
\* of the ExprId it replaces
Rewriting(c, old) ==
    [c EXCEPT !.rewrites = Append(@, [old |-> old,
                                      registered |-> old \in RegisteredIn(c)])]

\* change_formula after the new source was compiled: r.n is its node, NoNode
\* when it did not parse
FormulaChanged(fifo, value, expr_id, r) ==
    LET dv == IF r.n = NoNode THEN Err(ParseError(value)) ELSE CurrentOrNull(r.c, r.n)
    IN  update_refs(
            [r.c EXCEPT
                !.compiled = IF r.n = NoNode THEN @
                             ELSE MapPut(@, expr_id, Formula(r.n, fifo.val)),
                !.batch = Append(@, <<fifo.val, dv>>),
                !.ref_updates = @ \o <<<<fifo.path, dv>>,
                                       <<PathAppend(fifo.path, ".formula"),
                                         Str(value)>>>>])

\* Container::change_formula
change_formula(c, fifo, value) ==
    Only({FormulaChanged(fifo, value, c.next_id.expr, r) : r \in {
        CompileParsed(
            Rewriting(
                [unref(c, c.fifos[fifo.val].expr_id) EXCEPT
                    !.batch = Append(@, <<fifo.src, Str(value)>>),
                    !.compiled = IF Has(@, c.fifos[fifo.val].expr_id)
                                 THEN MapDel(@, c.fifos[fifo.val].expr_id) ELSE @,
                    !.fifos[fifo.val].expr_id =
                        IF ParseOk(value) THEN c.next_id.expr ELSE @,
                    !.next_id.expr = IF ParseOk(value) THEN @ + 1 ELSE @],
                c.fifos[fifo.val].expr_id),
            Str(value), c.next_id.expr)}})

\* change_on_write after the new source was compiled
OnWriteChanged(fifo, value, expr_id, r) ==
    update_refs(
        [r.c EXCEPT
            !.compiled = IF r.n = NoNode THEN @ ELSE MapPut(@, expr_id, OnWrite(r.n)),
            !.ref_updates = Append(@, <<PathAppend(fifo.path, ".on-write"),
                                        Str(value)>>)])

\* Container::change_on_write
change_on_write(c, fifo, value) ==
    Only({OnWriteChanged(fifo, value, c.next_id.expr, r) : r \in {
        CompileParsed(
            Rewriting(
                [unref(c, c.fifos[fifo.val].on_write_expr_id) EXCEPT
                    !.batch = Append(@, <<fifo.on_write, Str(value)>>),
                    !.compiled = IF Has(@, c.fifos[fifo.val].on_write_expr_id)
                                 THEN MapDel(@, c.fifos[fifo.val].on_write_expr_id)
                                 ELSE @,
                    !.fifos[fifo.val].on_write_expr_id =
                        IF ParseOk(value) THEN c.next_id.expr ELSE @,
                    !.next_id.expr = IF ParseOk(value) THEN @ + 1 ELSE @],
                c.fifos[fifo.val].on_write_expr_id),
            Str(value), c.next_id.expr)}})

\* the write of process_writes to the data Val of a formula row: r is what
\* the update of the on-write node returned
OnWriteUpdated(expr_id, r) == update_refs([r.c EXCEPT !.compiled[expr_id].node = r.n])

\* the event of a write to the data Val of a formula row
WriteEvent(c, req) == EvUser(c.by_id[req.id].path, req.value)

\* the write reached the node expr_id as the event ev
Written(c, expr_id, ev) == [c EXCEPT !.written = Append(@, [id |-> expr_id, ev |-> ev])]

\* process_writes that takes every write as a write to a data row
ProcessWriteAsData(c, req) ==
    IF ~Has(c.by_id, req.id) THEN c
    ELSE db_set_data(c, TRUE, c.by_id[req.id].path, req.value)

\* process_writes, one request
ProcessWrite(c, req) ==
    IF ~Has(c.by_id, req.id) THEN c
    ELSE IF c.by_id[req.id].kind = "Data"
    THEN db_set_data(c, TRUE, c.by_id[req.id].path, req.value)
    ELSE IF c.by_id[req.id].src = req.id
    THEN db_set_formula(c, c.by_id[req.id].path, req.value)
    ELSE IF c.by_id[req.id].on_write = req.id
    THEN db_set_on_write(c, c.by_id[req.id].path, req.value)
    ELSE IF /\ c.by_id[req.id].val = req.id
            /\ Has(c.compiled, c.fifos[req.id].on_write_expr_id)
            /\ c.compiled[c.fifos[req.id].on_write_expr_id].kind = "OnWrite"
    THEN Only({OnWriteUpdated(c.fifos[req.id].on_write_expr_id, r) :
                  r \in {Update(Written(c, c.fifos[req.id].on_write_expr_id,
                                        WriteEvent(c, req)),
                                c.compiled[c.fifos[req.id].on_write_expr_id].node,
                                WriteEvent(c, req))}})
    ELSE c

RECURSIVE process_writes(_, _)
\* Container::process_writes
process_writes(c, writes) ==
    IF writes = <<>> THEN c
    ELSE Only({process_writes(c1, Tail(writes)) :
                  c1 \in {ProcessWrite(c, Head(writes))}})

\* the BTreeSet range of process_publish_request: the greatest locked path
\* that is not above path in the order of the bytes is a parent of path
LockedAbove(c, path) ==
    LET below == {p \in c.locked : StrLe(p, path)}
    IN  /\ below # {}
        /\ IsParent(CHOOSE p \in below : \A q \in below : StrLe(q, p), path)

\* Container::process_publish_request
process_publish_request(c, path) ==
    IF ~check_path(path) THEN c
    ELSE IF Basename(path) \in {Str(".formula"), Str(".on-write")} THEN c
    ELSE IF db_lookup(c, path) = NoneV
    THEN IF LockedAbove(c, path) THEN c
         ELSE publish_data(db_set_data(c, FALSE, path, Null), path, Null)
    ELSE IF db_lookup(c, path).kind = "Data"
    THEN publish_data(c, path, db_lookup(c, path).v)
    ELSE [c EXCEPT !.panicked = TRUE]

\* a Destroyed event that would leave the path of the Val in by_path
DestroyedKeepsPath(c, id) ==
    IF ~Has(c.by_id, id) THEN c ELSE [c EXCEPT !.by_id = MapDel(@, id)]

\* Container::process_publish_event, for PEvent::Destroyed(id)
process_publish_event(c, id) ==
    IF ~Has(c.by_id, id) THEN c
    ELSE IF c.by_id[id].kind = "Data"
    THEN [c EXCEPT !.by_id = MapDel(@, id),
                   !.by_path = IF Has(@, c.by_id[id].path)
                               THEN MapDel(@, c.by_id[id].path) ELSE @]
    ELSE [c EXCEPT !.by_id = MapDel(@, id)]

\* ---- rpc calls
\* get_rpc_proc: the task behind the sender for name, spawned when there is
\* none
get_rpc_proc(c, name) ==
    IF Has(c.rpcs.procs, name) THEN c
    ELSE [c EXCEPT !.rpcs.procs = MapPut(@, name, c.next_id.task),
                   !.rpcs.tasks = MapPut(@, c.next_id.task,
                                         [name |-> name, st |-> "new", queue |-> <<>>]),
                   !.next_id.task = @ + 1]

\* proc.unbounded_send((args, id)) succeeds while the receiver lives
SendOk(c, name) == Has(c.rpcs.tasks, c.rpcs.procs[name])

\* one attempt of the loop of LcEvent::RpcCall, after get_rpc_proc: the call
\* is queued, or the sender is forgotten
Sent(c, event) ==
    IF SendOk(c, event.name)
    THEN [c EXCEPT !.rpcs.tasks[c.rpcs.procs[event.name]].queue =
                       Append(@, [args |-> event.args, id |-> event.id])]
    ELSE [c EXCEPT !.rpcs.procs = MapDel(@, event.name)]

\* the reply the container makes up when both attempts failed
FailedToCall(c, event) ==
    [c EXCEPT !.events = Append(@, RpcReplyEv(event.name, event.id,
                                              Err("failed to call rpc")))]

\* LcEvent::RpcCall: for _ in 1..3, two attempts
SendCall(c, event) ==
    LET second(c2) == IF Has(c2.rpcs.procs, event.name) THEN c2
                      ELSE FailedToCall(c2, event)
        retry(c1) == IF Has(c1.rpcs.procs, event.name) THEN c1
                     ELSE second(Sent(get_rpc_proc(c1, event.name), event))
    IN  retry(Sent(get_rpc_proc(c, event.name), event))

\* Container::gc_rpcs: old are the names whose sender was last used
\* MAX_RPC_AGE or longer ago
gc_rpcs(c, old) ==
    [c EXCEPT !.rpcs.procs = [n \in DOMAIN @ \ old |-> @[n]]]

\* Container::process_bscript_event
process_bscript_event(c, event) ==
    IF event.k = "RpcCall" THEN SendCall(c, event)
    ELSE update_refs(
             IF event.k = "Refs" THEN c
             ELSE update_expr_ids(
                      [c EXCEPT !.delivered = Append(@, event.id)],
                      IdsOf(c.rpc, event.name),
                      EvRpc(event.name, event.id, event.result)))

\* ---- the rpc api
RpcDelete(path) == [NoReq EXCEPT !.kind = "Delete", !.path = path]
RpcDeleteSubtree(path) == [NoReq EXCEPT !.kind = "DeleteSubtree", !.path = path]
RpcLockSubtree(path) == [NoReq EXCEPT !.kind = "LockSubtree", !.path = path]
RpcUnlockSubtree(path) == [NoReq EXCEPT !.kind = "UnlockSubtree", !.path = path]
RpcSetData(path, value) ==
    [NoReq EXCEPT !.kind = "SetData", !.path = path, !.value = value]
RpcSetFormula(path, formula, on_write) ==
    [NoReq EXCEPT !.kind = "SetFormula", !.path = path, !.formula = formula,
                  !.on_write = on_write]
RpcCreateSheet(path, lock) ==
    [NoReq EXCEPT !.kind = "CreateSheet", !.path = path, !.lock = lock]
RpcCreateTable(path, lock) ==
    [NoReq EXCEPT !.kind = "CreateTable", !.path = path, !.lock = lock]

\* Err(e) of check_path, as the reply shows it
NonRootPath == Err("non root path")

\* a handler that stops at check_path
Rejected(c) == [c EXCEPT !.reply = NonRootPath]
Replied(c) == [c EXCEPT !.reply = OkV]

\* Container::delete_path
delete_path(c, path) ==
    IF ~check_path(path) THEN Rejected(c)
    ELSE IF Basename(path) \in {Str(".formula"), Str(".on-write")}
    THEN IF Dirname(path) = NoneV THEN Replied(c)
         ELSE Replied(db_remove(c, Dirname(path).v))
    ELSE Replied(db_remove(c, path))

\* Container::delete_subtree
delete_subtree(c, path) ==
    IF ~check_path(path) THEN Rejected(c) ELSE Replied(db_remove_subtree(c, path))

\* Container::lock_subtree
lock_subtree(c, path) ==
    IF ~check_path(path) THEN Rejected(c) ELSE Replied(db_set_locked(c, path))

\* Container::unlock_subtree
unlock_subtree(c, path) ==
    IF ~check_path(path) THEN Rejected(c) ELSE Replied(db_set_unlocked(c, path))

\* Container::set_data
set_data(c, path, value) ==
    IF ~check_path(path) THEN Rejected(c)
    ELSE Replied(db_set_data(c, TRUE, path, value))

\* Container::set_formula
set_formula(c, path, formula, on_write) ==
    LET second(c1) == IF on_write = NoneV THEN c1
                      ELSE db_set_on_write(c1, path, on_write)
    IN  IF ~check_path(path) THEN Rejected(c)
        ELSE Replied(second(IF formula = NoneV THEN c
                            ELSE db_set_formula(c, path, formula)))

\* Container::create_sheet
create_sheet(c, path, rows, columns, lock) ==
    Replied(db_create_sheet(c, path, rows, columns, lock))

\* Container::create_table
create_table(c, path, rows, columns, lock) ==
    Replied(db_create_table(c, path, rows, columns, lock))

\* Container::process_rpc_request
process_rpc_request(c, req) ==
    CASE req.kind = "Delete" -> delete_path(c, req.path)
      [] req.kind = "DeleteSubtree" -> delete_subtree(c, req.path)
      [] req.kind = "LockSubtree" -> lock_subtree(c, req.path)
      [] req.kind = "UnlockSubtree" -> unlock_subtree(c, req.path)
      [] req.kind = "SetData" -> set_data(c, req.path, req.value)
      [] req.kind = "SetFormula" -> set_formula(c, req.path, req.formula, req.on_write)
      [] req.kind = "CreateSheet" -> create_sheet(c, req.path, 1, 1, req.lock)
      [] req.kind = "CreateTable" ->
             create_table(c, req.path, {"0"}, {"0"}, req.lock)

\* ---- the change-log
\* remove_deleted_published, the arm of a Published::Formula
FormulaRemoved(c, path, fifo) ==
    [unref(unref(c, c.fifos[fifo.val].expr_id), c.fifos[fifo.val].on_write_expr_id)
     EXCEPT
        !.compiled = [i \in DOMAIN @ \ {c.fifos[fifo.val].expr_id,
                                        c.fifos[fifo.val].on_write_expr_id} |-> @[i]],
        !.by_id = [i \in DOMAIN @ \ {fifo.val, fifo.src, fifo.on_write} |-> @[i]],
        !.by_path = [p \in DOMAIN @ \ {path, PathAppend(path, ".formula"),
                                       PathAppend(path, ".on-write")} |-> @[p]],
        !.ref_updates = @ \o <<<<PathAppend(path, ".formula"), RefErr>>,
                               <<PathAppend(path, ".on-write"), RefErr>>>>]

\* remove_deleted_published, the match on by_path.remove(path): the record
\* taken out of by_path is dropped at the end of its arm
PublishedRemoved(c, path) ==
    IF ~Has(c.by_path, path) THEN c
    ELSE IF c.by_path[path].kind = "Data"
    THEN DropUnheld([c EXCEPT !.by_path = MapDel(@, path),
                              !.by_id = IF Has(@, c.by_path[path].val)
                                        THEN MapDel(@, c.by_path[path].val) ELSE @])
    ELSE DropUnheld(FormulaRemoved(c, path, c.by_path[path]))

\* a removal that would tell the refs of the path nothing
RemovedUnnoticed(c, path) == update_refs(PublishedRemoved(c, path))

\* Container::remove_deleted_published
remove_deleted_published(c, path) ==
    update_refs([PublishedRemoved(c, path) EXCEPT
                    !.ref_updates = Append(@, <<path, RefErr>>)])

\* whether the arm of an entry starts with remove_deleted_published: Deleted,
\* and Inserted over a path that is in by_path
Removes(c, path, value) ==
    value.k = "Deleted" \/ (value.k = "Inserted" /\ Has(c.by_path, path))

\* the arm of an entry of update.data without the update of the published Val
DataEntryUnpublished(c, path, value) ==
    IF value.k \in {"Updated", "Inserted"}
    THEN [c EXCEPT !.ref_updates = Append(@, <<path, value.v>>)]
    ELSE c

\* the arm of an entry of update.data, after that call
DataEntry(c, path, value) ==
    IF value.k = "Updated"
    THEN IF ~Has(c.by_path, path)
         THEN [c EXCEPT !.ref_updates = Append(@, <<path, value.v>>)]
         ELSE IF c.by_path[path].kind = "Data"
         THEN [c EXCEPT !.batch = Append(@, <<c.by_path[path].val, value.v>>),
                        !.ref_updates = Append(@, <<path, value.v>>)]
         ELSE [c EXCEPT !.panicked = TRUE]
    ELSE IF value.k = "Inserted"
    THEN [c EXCEPT !.ref_updates = Append(@, <<path, value.v>>)]
    ELSE c

\* the arm of an entry of update.formula or update.on_write (which), after
\* that call
SourceEntry(c, which, path, value) ==
    IF value.k = "Updated"
    THEN IF Has(c.by_path, path) /\ c.by_path[path].kind = "Formula"
         THEN IF which = "formula"
              THEN change_formula(c, c.by_path[path], to_chars(value.v))
              ELSE change_on_write(c, c.by_path[path], to_chars(value.v))
         ELSE [c EXCEPT !.panicked = TRUE]
    ELSE IF value.k = "Inserted"
    THEN publish_formula(c, path,
                         IF which = "formula" THEN value.v ELSE Null,
                         IF which = "formula" THEN Null ELSE value.v)
    ELSE c

\* one entry e of the lists of process_update
UpdateEntry(c, e) ==
    Only({IF e.which = "data" THEN DataEntry(c1, e.path, e.value)
          ELSE SourceEntry(c1, e.which, e.path, e.value) :
             c1 \in {IF Removes(c, e.path, e.value)
                     THEN remove_deleted_published(c, e.path) ELSE c}})

\* the entries of the three lists of an Update in the order process_update
\* takes them: update.data, update.formula, update.on_write
Tagged(which, list) ==
    [i \in 1..Len(list) |-> [which |-> which, path |-> list[i][1], value |-> list[i][2]]]
Entries(update) ==
    Tagged("data", update.data) \o Tagged("formula", update.formula)
    \o Tagged("on_write", update.on_write)

RECURSIVE UpdateEntries(_, _)
\* the three for loops of process_update; a panic ends the task
UpdateEntries(c, list) ==
    IF list = <<>> \/ c.panicked THEN c
    ELSE Only({UpdateEntries(c1, Tail(list)) : c1 \in {UpdateEntry(c, Head(list))}})

\* the locked and unlocked loops of process_update
Relocked(c, update) ==
    [c EXCEPT !.locked = (@ \cup {update.locked[i] : i \in 1..Len(update.locked)})
                         \ {update.unlocked[i] : i \in 1..Len(update.unlocked)}]

\* the end of process_update, after the three lists
UpdateEnd(c, update) ==
    IF c.panicked THEN c ELSE update_refs(Relocked(c, update))

\* Container::process_update
process_update(c, update) ==
    Only({UpdateEnd(c1, update) : c1 \in {UpdateEntries(c, Entries(update))}})

-----------------------------------------------------------------------------
(* The container's task: init, then the loop of run.  A turn of the loop is *)
(* one action: an arm of the select is taken with what it received, its     *)
(* handler runs, the change-log of the DB is processed and the batch is     *)
(* committed.                                                               *)

\* how many inputs the environment sends: publisher events, publish
\* requests, subscription updates, writes, rpc requests and timer ticks
MaxInputs == 2

\* a persisted formula row
Row(src) == DatumFormula(Str(src), Null)

\* the DBs the container is started on
InitDbs ==
    {EmptyMap,
     [p \in {"/r/a", "/r/b"} |-> IF p = "/r/a" THEN Row(SrcRefB) ELSE Row(SrcRefA)],
     [p \in {"/r/a"} |-> Row(SrcBad)],
     [p \in {"/r/a"} |-> DatumData(U64("1"))],
     [p \in {"/r/a", "/r/b"} |->
         IF p = "/r/a" THEN Row(SrcRefB) ELSE Row(SrcStoreVar)],
     [p \in {"/r/a", "/r/b"} |-> Row(SrcCall)]}

Init ==
    /\ pc = "init"
    /\ var = EmptyMap /\ sub = EmptyMap /\ rpc = EmptyMap /\ refs = EmptyMap
    /\ forward_refs = EmptyMap
    /\ var_updates = <<>> /\ ref_updates = <<>>
    /\ variables = EmptyMap
    /\ events = <<>>
    /\ by_id = EmptyMap /\ by_path = EmptyMap
    /\ db \in InitDbs
    /\ pending = EmptyPending
    /\ vals = EmptyMap /\ dvals = EmptyMap
    /\ compiled = EmptyMap
    /\ locked = {}
    /\ fifos = EmptyMap
    /\ next_id = [expr |-> 1, sub |-> 1, val |-> 1, call |-> 1, task |-> 1]
    /\ rpcs = NoRpcs
    /\ ctrl_c = FALSE
    /\ inputs = 0
    /\ obs = NoObs
    /\ channel = NoChannel /\ resolver = NoResolver

\* what a turn leaves: c is the context after the batch was committed, h the
\* context when the handler of the arm returned; obs.turn tells a turn that
\* leaves everything as it was from no turn at all
TurnDone(arm, req, h, c) ==
    /\ Becomes(c)
    /\ pc' = IF c.panicked THEN "panic" ELSE "loop"
    /\ obs' = [obs EXCEPT
           !.arm = arm, !.turn = 1 - @, !.req = req, !.reply = h.reply,
           !.mutated = (h.db # db \/ h.pending # pending),
           !.log = h.pending, !.batch = c.batch, !.iters = c.iters,
           !.total = c.total, !.calls = c.calls, !.posts = c.posts,
           !.unposted = c.unposted, !.delivered = @ \o c.delivered,
           !.written = c.written, !.drained = c.drained,
           !.issued = @ \o c.issued, !.surfaced = c.surfaced,
           !.rewrites = c.rewrites]

\* the end of a turn of the loop of run, for the context hh the handler of
\* the arm returned: db.finish(), process_update, batch.commit
Turn(arm, req, hh) ==
    \E h \in {hh} :
        \E c \in {IF h.panicked THEN h
                  ELSE DropUnheld(Commit(
                           process_update([h EXCEPT !.pending = EmptyPending],
                                          h.pending)))} :
            TurnDone(arm, req, h, c)

\* self.init().await
ContainerInit ==
    /\ pc = "init"
    /\ \E c \in {DropUnheld(init(St))} : TurnDone("init", NoReq, St, c)
    /\ UNCHANGED <<ctrl_c, inputs>>

\* the environment may send an input
Ready ==
    /\ pc = "loop"
    /\ inputs < MaxInputs

\* the publisher reports that the Val id, published with DESTROY_ON_IDLE, was
\* destroyed
PublishEvent(id) ==
    /\ Ready
    /\ Has(by_id, id) /\ by_id[id].kind = "Data"
    /\ Turn("publish_events", NoReq, process_publish_event(St, id))
    /\ inputs' = inputs + 1
    /\ UNCHANGED ctrl_c

\* the paths a subscriber asks the default publisher for
RequestPaths == {"/r/a", "/r/t/0/0", "/r/a/.formula"}

\* the default publisher asks for a path below base_path that is not published
PublishRequest(path) ==
    /\ Ready
    /\ ~PublishedAt(St, path)
    /\ Turn("publish_requests", [NoReq EXCEPT !.kind = "Publish", !.path = path],
            process_publish_request(St, path))
    /\ inputs' = inputs + 1
    /\ UNCHANGED ctrl_c

\* the subscriber delivers an update of the Dval id
SubUpdates(id, value) ==
    /\ Ready
    /\ Has(dvals, id)
    /\ Turn("sub_updates", NoReq, process_subscriptions(St, <<<<id, value>>>>))
    /\ inputs' = inputs + 1
    /\ UNCHANGED ctrl_c

\* what subscribers write
WriteValues == {U64("42"), Str(SrcBad)}

\* a subscriber writes to the published Val id
Writes(id, value) ==
    /\ Ready
    /\ Has(vals, id)
    /\ Turn("write_updates", [NoReq EXCEPT !.kind = "Write", !.id = id, !.value = value],
            process_writes(St, <<[id |-> id, value |-> value]>>))
    /\ inputs' = inputs + 1
    /\ UNCHANGED ctrl_c

\* the requests the rpc api receives
RpcRequests ==
    {RpcSetFormula("/r/a", Str(f), NoneV) : f \in {SrcRefB, SrcBad, SrcLoad, SrcCall}}
    \cup {RpcSetFormula("/r/b", Str(SrcRefA), NoneV),
          RpcSetFormula("/r/a", NoneV, Str(SrcConst)),
          RpcSetFormula("/x/a", Str(SrcConst), NoneV)}
    \cup {RpcSetData(p, U64("1")) : p \in {"/r/a", "/rx/a", "/x/a"}}
    \cup {RpcDelete(p) : p \in {"/r/a", "/x/a"}}
    \cup {RpcDeleteSubtree(p) : p \in {"/r", "/x"}}
    \cup {RpcLockSubtree(p) : p \in {"/r/t", "/x"}}
    \cup {RpcUnlockSubtree(p) : p \in {"/r/t", "/x"}}
    \cup {RpcCreateSheet(p, FALSE) : p \in {"/r/t", "/x/t"}}
    \cup {RpcCreateTable(p, TRUE) : p \in {"/r/t", "/x/t"}}

\* a client calls one of the rpcs of the api
RpcRequest(req) ==
    /\ Ready
    /\ Turn("api", req, process_rpc_request(St, req))
    /\ inputs' = inputs + 1
    /\ UNCHANGED ctrl_c

\* the oldest LcEvent is taken
BscriptEvent ==
    /\ pc = "loop"
    /\ events # <<>>
    /\ Turn("bscript_event", NoReq,
            process_bscript_event([St EXCEPT !.events = Tail(@)], Head(events)))
    /\ UNCHANGED <<ctrl_c, inputs>>

\* the 60 s timer ticks while no LcEvent waits
GcRpcs(old) ==
    /\ Ready
    /\ events = <<>>
    /\ Turn("gc_rpcs", NoReq, gc_rpcs(St, old))
    /\ inputs' = inputs + 1
    /\ UNCHANGED ctrl_c

\* the Ctrl-C signal is raised
CtrlCSignal ==
    /\ pc = "loop"
    /\ ~ctrl_c
    /\ ctrl_c' = TRUE
    /\ UNCHANGED <<pc, var, sub, rpc, refs, forward_refs, var_updates, ref_updates,
                   variables, events, by_id, by_path, db, pending, vals, dvals,
                   compiled, locked, fifos, next_id, rpcs, inputs, obs, netvars>>

\* the ctrl_c arm is taken, when no arm before it is ready: break, then
\* publisher.shutdown() and db.flush_async()
CtrlCExit ==
    /\ pc = "loop"
    /\ ctrl_c
    /\ events = <<>>
    /\ pc' = "done"
    /\ UNCHANGED <<var, sub, rpc, refs, forward_refs, var_updates, ref_updates,
                   variables, events, by_id, by_path, db, pending, vals, dvals,
                   compiled, locked, fifos, next_id, rpcs, ctrl_c, inputs, obs,
                   netvars>>

\* a step of an rpc_task changes the tasks and the LcEvent queue only
TaskStep(tasks, evs) ==
    /\ rpcs' = [rpcs EXCEPT !.tasks = tasks]
    /\ events' = evs
    /\ UNCHANGED <<pc, var, sub, rpc, refs, forward_refs, var_updates, ref_updates,
                   variables, by_id, by_path, db, pending, vals, dvals, compiled,
                   locked, fifos, next_id, ctrl_c, inputs, obs, netvars>>

\* rpc_task: Proc::new(..).await?
RpcTaskOpen(t, ok) ==
    /\ pc = "loop"
    /\ Has(rpcs.tasks, t) /\ rpcs.tasks[t].st = "new"
    /\ TaskStep(IF ok THEN [rpcs.tasks EXCEPT ![t].st = "open"]
                ELSE MapDel(rpcs.tasks, t),
                events)

\* rpc_task: proc.call(args).await?, then the reply is sent
RpcTaskCall(t, ok) ==
    /\ pc = "loop"
    /\ Has(rpcs.tasks, t) /\ rpcs.tasks[t].st = "open"
    /\ rpcs.tasks[t].queue # <<>>
    /\ TaskStep(IF ok THEN [rpcs.tasks EXCEPT ![t].queue = Tail(@)]
                ELSE MapDel(rpcs.tasks, t),
                IF ok THEN Append(events,
                                  RpcReplyEv(rpcs.tasks[t].name,
                                             Head(rpcs.tasks[t].queue).id, U64("1")))
                ELSE events)

\* rpc_task: rx.next() gives None once every sender is gone
RpcTaskEnd(t) ==
    /\ pc = "loop"
    /\ Has(rpcs.tasks, t) /\ rpcs.tasks[t].st = "open"
    /\ rpcs.tasks[t].queue = <<>>
    /\ \A n \in DOMAIN rpcs.procs : rpcs.procs[n] # t
    /\ TaskStep(MapDel(rpcs.tasks, t), events)

\* a turn of the loop that needs no input
LoopStep == BscriptEvent \/ CtrlCExit

\* a step of one of the rpc tasks
WorkerStep ==
    \E t \in DOMAIN rpcs.tasks :
        \/ \E ok \in BOOLEAN : RpcTaskOpen(t, ok)
        \/ \E ok \in BOOLEAN : RpcTaskCall(t, ok)
        \/ RpcTaskEnd(t)

Next ==
    \/ ContainerInit
    \/ \E id \in DOMAIN by_id : PublishEvent(id)
    \/ \E path \in RequestPaths : PublishRequest(path)
    \/ \E id \in DOMAIN dvals : SubUpdates(id, U64("1"))
    \/ \E id \in DOMAIN vals, value \in WriteValues : Writes(id, value)
    \/ \E req \in RpcRequests : RpcRequest(req)
    \/ BscriptEvent
    \/ \E old \in SUBSET DOMAIN rpcs.procs : GcRpcs(old)
    \/ CtrlCSignal
    \/ CtrlCExit
    \/ \E t \in DOMAIN rpcs.tasks, ok \in BOOLEAN : RpcTaskOpen(t, ok)
    \/ \E t \in DOMAIN rpcs.tasks, ok \in BOOLEAN : RpcTaskCall(t, ok)
    \/ \E t \in DOMAIN rpcs.tasks : RpcTaskEnd(t)

Spec == Init /\ [][Next]_vars

\* the bscript_event arm of the select is ready
LoopReady == pc = "loop" /\ events # <<>>

\* the loop takes the bscript_event arm again and again while it stays ready:
\* weak fairness of BscriptEvent, with the condition under which it is
\* enabled written out
LoopFair == ([]<>~LoopReady) \/ ([]<><<BscriptEvent>>_vars)

\* the runtime runs the loop while an LcEvent waits or Ctrl-C was raised, and
\* runs every rpc task that can take a step
FairSpec == Spec /\ WF_vars(CtrlCExit) /\ WF_vars(WorkerStep) /\ LoopFair

-----------------------------------------------------------------------------
(* The container over a DB without rows whose tree of locked paths is not   *)
(* empty: init has loaded the locked set, clients lock and unlock subtrees  *)
(* and subscribers ask for paths that are not published.                    *)

\* the paths that are locked or become locked
LockPaths == {"/r/t", "/r/t/0", "/r/t-"}

\* the paths a subscriber asks for
LkRequestPaths == {"/r/t/0/0", "/r/t/1", "/r/u", "/r/t/.formula"}

\* the lock and unlock requests of the rpc api
LkRequests ==
    {RpcLockSubtree(p) : p \in LockPaths} \cup {RpcUnlockSubtree(p) : p \in LockPaths}

\* the container after init: the DB holds no row, self.locked holds the
\* locked paths of the DB
InitLk ==
    /\ pc = "loop"
    /\ var = EmptyMap /\ sub = EmptyMap /\ rpc = EmptyMap /\ refs = EmptyMap
    /\ forward_refs = EmptyMap
    /\ var_updates = <<>> /\ ref_updates = <<>>
    /\ variables = EmptyMap
    /\ events = <<>>
    /\ by_id = EmptyMap /\ by_path = EmptyMap
    /\ db = EmptyMap
    /\ pending = EmptyPending
    /\ vals = EmptyMap /\ dvals = EmptyMap
    /\ compiled = EmptyMap
    /\ locked \in SUBSET LockPaths
    /\ fifos = EmptyMap
    /\ next_id = [expr |-> 1, sub |-> 1, val |-> 1, call |-> 1, task |-> 1]
    /\ rpcs = NoRpcs
    /\ ctrl_c = FALSE
    /\ inputs = 0
    /\ obs = [NoObs EXCEPT !.arm = "init"]
    /\ channel = NoChannel /\ resolver = NoResolver

NextLk ==
    \/ \E path \in LkRequestPaths : PublishRequest(path)
    \/ \E req \in LkRequests : RpcRequest(req)

SpecLk == InitLk /\ [][NextLk]_vars

-----------------------------------------------------------------------------
(* process_update over the change-log of a row that is new in both of its   *)
(* lists: the handler of the turn has set the formula and the on-write      *)
(* source of a path without a row, and db.finish() reports Inserted for     *)
(* both.                                                                    *)

PuPaths == {"/r/a", "/r/b"}
PuSources == {SrcConst, SrcNull, SrcRefB, SrcLoad}

\* the change-log: Inserted(f) in update.formula, Inserted(w) in
\* update.on_write, for the same path
InsertedBoth(path, f, w) ==
    [EmptyPending EXCEPT !.formula = <<<<path, Inserted(f)>>>>,
                         !.on_write = <<<<path, Inserted(w)>>>>]

\* the container after init on a DB without rows
InitPu ==
    /\ pc = "loop"
    /\ var = EmptyMap /\ sub = EmptyMap /\ rpc = EmptyMap /\ refs = EmptyMap
    /\ forward_refs = EmptyMap
    /\ var_updates = <<>> /\ ref_updates = <<>>
    /\ variables = EmptyMap
    /\ events = <<>>
    /\ by_id = EmptyMap /\ by_path = EmptyMap
    /\ db = EmptyMap
    /\ pending = EmptyPending
    /\ vals = EmptyMap /\ dvals = EmptyMap
    /\ compiled = EmptyMap
    /\ locked = {}
    /\ fifos = EmptyMap
    /\ next_id = [expr |-> 1, sub |-> 1, val |-> 1, call |-> 1, task |-> 1]
    /\ rpcs = NoRpcs
    /\ ctrl_c = FALSE
    /\ inputs = 0
    /\ obs = [NoObs EXCEPT !.arm = "init"]
    /\ channel = NoChannel /\ resolver = NoResolver

\* a turn of the loop whose handler set both sources of the new row path
PuInserted(path, f, w) ==
    /\ Ready
    /\ ~Has(db, path) /\ ~Has(by_path, path)
    /\ Turn("api", RpcSetFormula(path, f, w),
            Replied([St EXCEPT !.db = MapPut(@, path, DatumFormula(f, w)),
                               !.pending = InsertedBoth(path, f, w)]))
    /\ inputs' = inputs + 1
    /\ UNCHANGED ctrl_c

NextPu ==
    \/ \E path \in PuPaths, f, w \in PuSources : PuInserted(path, Str(f), Str(w))
    \/ \E path \in PuPaths : RpcRequest(RpcDelete(path))

SpecPu == InitPu /\ [][NextPu]_vars

-----------------------------------------------------------------------------
(* Properties of the container.                                             *)

\* C1: every call of update_refs in a turn ends after at most 10 iterations
\* of its loop, and none returns with an entry left in ref_updates or
\* var_updates without having posted LcEvent::Refs.
C1_UpdateRefsBounded == obs.iters <= RefsBudget /\ ~obs.unposted

\* a turn in which a call of update_refs spent its 10 iterations and posted
C1_BudgetSpentAndPosted == obs.iters = RefsBudget /\ obs.posts > 0

\* the entries of update.data that write a value and are the last of their
\* path in that list
WrittenData ==
    {i \in 1..Len(obs.log.data) :
        /\ obs.log.data[i][2].k \in {"Updated", "Inserted"}
        /\ \A j \in (i + 1)..Len(obs.log.data) :
               obs.log.data[j][1] # obs.log.data[i][1]}

\* C4: when a turn has processed the change-log of the DB and committed its
\* batch, every value the data list of the change-log reports as written
\* (Updated or Inserted, and not followed by another entry of its path) is
\* the value of the Val published at that path, if one is published.
C4_WrittenDataPublished ==
    pc = "loop" =>
        \A i \in WrittenData :
            Has(by_path, obs.log.data[i][1]) =>
                vals[by_path[obs.log.data[i][1]].val].v = obs.log.data[i][2].v

\* a turn whose change-log updated a data row that is published
C4_UpdatedPublishedRow ==
    /\ pc = "loop"
    /\ \E i \in WrittenData :
           /\ obs.log.data[i][2].k = "Updated"
           /\ Has(by_path, obs.log.data[i][1])
           /\ vals[by_path[obs.log.data[i][1]].val].v = obs.log.data[i][2].v

\* C5: a request of the rpc api whose path is not base_path or below it is
\* answered with Error("non root path") and changes neither the DB nor its
\* change-log.
C5_NonRootRejected ==
    (obs.arm = "api" /\ ~IsParent(base_path, obs.req.path)) =>
        (obs.reply = NonRootPath /\ ~obs.mutated)

\* the call id is in an LcEvent::RpcCall that waits in the queue
CallIssued(i) == \E k \in 1..Len(events) : events[k].k = "RpcCall" /\ events[k].id = i

\* an Event::Rpc with the call id was delivered to the nodes
CallAnswered(i) == \E k \in 1..Len(obs.delivered) : obs.delivered[k] = i

\* C6: every call that call_rpc has queued is answered by an Event::Rpc with
\* its id in a later turn, unless the container leaves its loop first.
C6_EveryCallAnswered ==
    \A i \in 1..MaxCallId : CallIssued(i) ~> (CallAnswered(i) \/ pc # "loop")

\* the rows /r/a = ref("/r/b") and /r/b = ref("/r/a") are in the DB of the
\* running container
CycleLive ==
    /\ pc = "loop"
    /\ Has(db, "/r/a") /\ db["/r/a"] = Row(SrcRefB)
    /\ Has(db, "/r/b") /\ db["/r/b"] = Row(SrcRefA)

\* nothing is left to propagate
Settled == QueuesEmpty(St) /\ RefsQueued(events) = 0

\* C7: with the two cells that refer to each other, the propagation of
\* ref-updates stops: a state is reached in which ref_updates and
\* var_updates are empty and no LcEvent::Refs waits.
C7_CycleSettles == CycleLive ~> (Settled \/ ~CycleLive)

\* C8: once Ctrl-C is raised the container leaves its loop.
C8_CtrlCExits == (ctrl_c /\ pc = "loop") ~> (pc # "loop")

\* the formula rows of the DB whose source does not parse
BadRows ==
    {p \in DOMAIN db : db[p].kind = "Formula" /\ ~ParseOk(CastToChars(db[p].f))}

\* C9: while the formula source of a row does not parse, the row is in
\* by_path, its data Val holds an Error and its .formula Val the source.
C9_ParseFailurePublished ==
    pc = "loop" =>
        \A p \in BadRows :
            /\ Has(by_path, p)
            /\ by_path[p].kind = "Formula"
            /\ vals[by_path[p].val].v.t = "Error"
            /\ CastToChars(vals[by_path[p].src].v) = CastToChars(db[p].f)

\* a turn of the loop that handled the write of a subscriber to the data Val
\* of a formula row
FormulaDataWrite ==
    /\ pc = "loop"
    /\ obs'.arm = "write_updates" /\ obs'.turn # obs.turn
    /\ Has(by_id, obs'.req.id)
    /\ by_id[obs'.req.id].kind = "Formula"
    /\ by_id[obs'.req.id].val = obs'.req.id

\* what the write of req hands to the on-write node of the row
OnWriteDelivery(req) ==
    [id |-> fifos[req.id].on_write_expr_id,
     ev |-> EvUser(by_id[req.id].path, req.value)]

\* C11: a write of a subscriber to the data Val of a formula row reaches the
\* on-write node of that row as Event::User(path, value) and nothing else:
\* the DB and its change-log are as before, and the data Val publishes the
\* value it published before.
C11_WriteReachesOnWriteOnly ==
    [][FormulaDataWrite =>
           /\ db' = db
           /\ ~obs'.mutated
           /\ Has(vals', obs'.req.id)
           /\ vals'[obs'.req.id].v = vals[obs'.req.id].v
           /\ IF /\ Has(compiled, fifos[obs'.req.id].on_write_expr_id)
                 /\ compiled[fifos[obs'.req.id].on_write_expr_id].kind = "OnWrite"
              THEN obs'.written = <<OnWriteDelivery(obs'.req)>>
              ELSE obs'.written = <<>>]_vars

\* a turn in which a write reached the on-write node of a formula row
C11_OnWriteFired ==
    /\ pc = "loop"
    /\ obs.arm = "write_updates"
    /\ obs.written # <<>>

\* the paths under which a Published::Formula is in by_path
FormulaPaths == {p \in DOMAIN by_path : by_path[p].kind = "Formula"}

\* the formula and on-write ExprIds the Fifos of the published formula rows
\* hold
CurrentExprIds ==
    UNION {{fifos[by_path[p].val].expr_id, fifos[by_path[p].val].on_write_expr_id} :
              p \in FormulaPaths}

\* the ExprIds the reverse indices and forward_refs hold
IndexedExprIds ==
    DOMAIN forward_refs
        \cup UNION {var[k] : k \in DOMAIN var} \cup UNION {sub[k] : k \in DOMAIN sub}
        \cup UNION {rpc[k] : k \in DOMAIN rpc} \cup UNION {refs[k] : k \in DOMAIN refs}

\* C25: between the turns of the loop the keys of compiled are exactly the
\* formula and on-write ExprIds the published formula rows hold, and the
\* reverse indices hold no other ExprId.
C25_CompiledIsPublished ==
    pc = "loop" =>
        /\ DOMAIN compiled = CurrentExprIds
        /\ IndexedExprIds \subseteq CurrentExprIds

\* C26: between the turns of the loop every published formula row has two
\* entries in compiled under two distinct ExprIds, a Formula with the id of
\* its data Val and an OnWrite, whether its sources parse or not.
C26_TwoCompiledEntries ==
    pc = "loop" =>
        \A p \in FormulaPaths :
            \E f \in {fifos[by_path[p].val]} :
                /\ f.expr_id # f.on_write_expr_id
                /\ Has(compiled, f.expr_id)
                /\ Has(compiled, f.on_write_expr_id)
                /\ compiled[f.expr_id].kind = "Formula"
                /\ compiled[f.expr_id].data_id = by_path[p].val
                /\ compiled[f.on_write_expr_id].kind = "OnWrite"

\* the paths a published record is in by_path under
PathsOf(record) ==
    IF record.kind = "Data" THEN {record.path}
    ELSE {record.path, PathAppend(record.path, ".formula"),
          PathAppend(record.path, ".on-write")}

\* the ids of the Vals of a published record
ValsOf(record) ==
    IF record.kind = "Data" THEN {record.val}
    ELSE {record.val, record.src, record.on_write}

Rewritten ==
    {p \in FormulaPaths :
        /\ by_path[p].path = p
        /\ Has(by_path', p) /\ by_path'[p] = by_path[p]
        /\ Has(db, p) /\ Has(db', p)
        /\ db[p].kind = "Formula" /\ db'[p].kind = "Formula"
        /\ (db'[p].f # db[p].f \/ db'[p].w # db[p].w)}

\* the ExprId of the cell that belongs to the source the step rewrote
OldExprIds(p) ==
    (IF db'[p].f # db[p].f THEN {fifos[by_path[p].val].expr_id} ELSE {})
        \cup (IF db'[p].w # db[p].w THEN {fifos[by_path[p].val].on_write_expr_id}
              ELSE {})

\* C33: a turn that rewrites the formula or the on-write source of a published
\* formula cell leaves the cell published under a new ExprId; the old ExprId
\* is in compiled and in the indices no more, and it was there no more when
\* the new source was compiled.
C33_RewriteReplaces ==
    [][(pc = "loop" /\ pc' = "loop") =>
          /\ \A p \in Rewritten :
                 /\ db'[p].f # db[p].f =>
                        fifos'[by_path[p].val].expr_id # fifos[by_path[p].val].expr_id
                 /\ db'[p].w # db[p].w =>
                        fifos'[by_path[p].val].on_write_expr_id
                            # fifos[by_path[p].val].on_write_expr_id
                 /\ \A old \in OldExprIds(p) :
                        /\ ~Has(compiled', old)
                        /\ old \notin IndexedExprIds'
                        /\ \E k \in 1..Len(obs'.rewrites) : obs'.rewrites[k].old = old
          /\ \A k \in 1..Len(obs'.rewrites) : ~obs'.rewrites[k].registered]_vars

\* the rows the step deletes from the DB
DeletedRows == DOMAIN db \ DOMAIN db'

\* the paths a row is referred to by: its own, and for a formula row those of
\* its sources
RowPaths(p) ==
    IF db[p].kind = "Formula"
    THEN {p, PathAppend(p, ".formula"), PathAppend(p, ".on-write")}
    ELSE {p}

\* the ref nodes of the compiled expressions the step leaves that refer to q
RefsTo(q) ==
    UNION {{n \in TreeNodes(compiled'[e].node) : n.fn = "ref" /\ n.s.path = Str(q)} :
              e \in DOMAIN compiled'}

\* the ExprIds of the published formula row p
RowExprIds(p) ==
    IF Has(by_path, p) /\ by_path[p].kind = "Formula"
    THEN {fifos[by_path[p].val].expr_id, fifos[by_path[p].val].on_write_expr_id}
    ELSE {}

\* C34: a turn that deletes a row updates the refs to its path, and to the
\* paths of its sources for a formula row, with Error("#REF"): update_refs
\* processes that update in the turn and the ref nodes hold #REF after it;
\* the records of the row are gone from by_path and by_id, its ExprIds from
\* compiled and from the indices.
C34_DeletedGivesRefErr ==
    [][(pc = "loop" /\ pc' = "loop") =>
          \A p \in DeletedRows :
              /\ \A q \in RowPaths(p) :
                     /\ \E k \in 1..Len(obs'.drained) :
                            obs'.drained[k] = Took("refs", <<q, RefErr>>)
                     /\ \A n \in RefsTo(q) : n.s.current = RefErr
              /\ \A q \in RowPaths(p) : ~Has(by_path', q)
              /\ \A id \in DOMAIN by_id' : by_id'[id].path # p
              /\ \A e \in RowExprIds(p) :
                     ~Has(compiled', e) /\ e \notin IndexedExprIds']_vars

\* a turn has deleted the row /r/a while the formula of /r/b refers to it, and
\* the ref of /r/b holds #REF
C34_DependentSawRefErr ==
    /\ pc = "loop"
    /\ obs.req.kind = "Delete" /\ obs.req.path = "/r/a"
    /\ obs.mutated
    /\ \E e \in DOMAIN compiled :
           /\ compiled[e].kind = "Formula"
           /\ compiled[e].node.fn = "ref"
           /\ compiled[e].node.s.path = Str("/r/a")
           /\ compiled[e].node.s.current = RefErr
    /\ \E k \in 1..Len(obs.drained) : obs.drained[k] = Took("refs", <<"/r/a", RefErr>>)

\* the step is a turn of the loop of run
IsTurn == pc = "loop" /\ pc' = "loop" /\ obs'.turn # obs.turn

\* the turn took one event: an input of one of the channels, or the oldest
\* LcEvent, and nothing else left the queue of LcEvents
TookOneEvent ==
    \/ /\ inputs' = inputs + 1
       /\ Len(events') >= Len(events)
       /\ SubSeq(events', 1, Len(events)) = events
    \/ /\ inputs' = inputs
       /\ obs'.arm = "bscript_event"
       /\ events # <<>>
       /\ Len(events') >= Len(events) - 1
       /\ SubSeq(events', 1, Len(events) - 1) = Tail(events)

\* C35: a turn of the loop takes one event, and what it leaves published is
\* what its one UpdateBatch held when the change-log was processed: a Val
\* holds the last value the batch of the turn has for it, and a Val the batch
\* has no update for holds what it held before the turn.
C35_OneEventOneBatch ==
    [][IsTurn =>
          /\ TookOneEvent
          /\ \A id \in DOMAIN vals' :
                 IF LastUpdate(obs'.batch, id) # 0
                 THEN vals'[id].v = obs'.batch[LastUpdate(obs'.batch, id)][2]
                 ELSE Has(vals, id) => vals'[id] = vals[id]]_vars

\* a turn has committed a batch with updates of two Vals, made for an entry
\* of the change-log of the event it handled
C35_BatchOfTwoVals ==
    /\ pc = "loop"
    /\ obs.arm = "write_updates"
    /\ obs.mutated
    /\ \E i, j \in 1..Len(obs.batch) :
           /\ obs.batch[i][1] # obs.batch[j][1]
           /\ Has(vals, obs.batch[i][1]) /\ Has(vals, obs.batch[j][1])
           /\ vals[obs.batch[i][1]].v = obs.batch[i][2]
           /\ vals[obs.batch[j][1]].v = obs.batch[j][2]

\* the turn handled a publish request for a path below base_path that is not
\* one of the two names of a formula row and has no row in the DB
RequestedNew ==
    /\ IsTurn
    /\ obs'.arm = "publish_requests"
    /\ check_path(obs'.req.path)
    /\ Basename(obs'.req.path) \notin {Str(".formula"), Str(".on-write")}
    /\ ~Has(db, obs'.req.path)

\* a path of the locked set is a parent of path
LockedAncestor(path) == \E l \in locked : IsParent(l, path)

\* C36: a publish request for a path without a row creates the Null data row
\* and publishes it if and only if no locked path is a parent of the path;
\* with a locked ancestor, whatever else is locked, the DB and the published
\* Vals stay as they were.
C36_LockedAncestorBlocks ==
    [][RequestedNew =>
          IF LockedAncestor(obs'.req.path)
          THEN db' = db /\ vals' = vals
          ELSE /\ Has(db', obs'.req.path)
               /\ db'[obs'.req.path] = DatumData(Null)
               /\ \E id \in DOMAIN vals' :
                      vals'[id] = [path |-> obs'.req.path, v |-> Null]]_vars

\* the turn processed a change-log with Inserted in update.formula and
\* Inserted in update.on_write for the same path
TurnInsertedBoth ==
    /\ IsTurn
    /\ Len(obs'.log.formula) = 1 /\ Len(obs'.log.on_write) = 1
    /\ obs'.log.formula[1][1] = obs'.log.on_write[1][1]
    /\ obs'.log.formula[1][2].k = "Inserted"
    /\ obs'.log.on_write[1][2].k = "Inserted"

\* after the step the row path is published once as a formula row whose
\* .formula Val holds f and whose .on-write Val holds w, with both compiled
PublishedWith(path, f, w) ==
    /\ Has(by_path', path) /\ by_path'[path].kind = "Formula"
    /\ Cardinality({id \in DOMAIN vals' : vals'[id].path = path}) = 1
    /\ vals'[by_path'[path].src].v = f
    /\ vals'[by_path'[path].on_write].v = w
    /\ \E fifo \in {fifos'[by_path'[path].val]} :
           /\ Has(compiled', fifo.expr_id)
           /\ compiled'[fifo.expr_id].kind = "Formula"
           /\ Has(compiled', fifo.on_write_expr_id)
           /\ compiled'[fifo.on_write_expr_id].kind = "OnWrite"

C32_ReplyToIssuer ==
    \A k \in 1..Len(obs.surfaced) :
        \E j \in 1..Len(obs.issued) :
            obs.issued[j] = <<obs.surfaced[k][2], obs.surfaced[k][1]>>

\* the iteration of update_refs that obs.drained records from its place i on:
\* it processes the ref_updates queued where it starts, in their order, then
\* the var_updates queued where it starts followed by those the ref_updates
\* produced, in their order; the ref_updates produced meanwhile stay queued in
\* their order and are at the head of the queues where the next iteration
\* starts
IterationInOrder(d, i) ==
    \E j \in {i + Len(d[i].refs) + 1} :
        /\ j <= Len(d) /\ d[j].k = "vars"
        /\ \A k \in 1..Len(d[i].refs) : d[i + k] = Took("refs", d[i].refs[k])
        /\ StartsWith(d[j].vars, d[i].vars)
        /\ \E e \in {j + Len(d[j].vars) + 1} :
               /\ e <= Len(d) /\ d[e].k = "end"
               /\ \A k \in 1..Len(d[j].vars) : d[j + k] = Took("vars", d[j].vars[k])
               /\ StartsWith(d[e].refs, d[j].refs)
               /\ e < Len(d) =>
                      /\ d[e + 1].k = "iter"
                      /\ StartsWith(d[e + 1].refs, d[e].refs)
                      /\ StartsWith(d[e + 1].vars, d[e].vars)

\* C28: in every iteration of update_refs the ref-updates queued at its start
\* are processed before any var-update, and the updates produced during a
\* phase are processed in the following phase or iteration, in the order
\* they were queued.
C28_RefsBeforeVars ==
    /\ obs.drained # <<>> => obs.drained[1].k = "iter"
    /\ \A i \in 1..Len(obs.drained) :
           obs.drained[i].k = "iter" => IterationInOrder(obs.drained, i)

\* a turn in which an iteration processed ref-updates and then a var-update
\* they produced, and in which an iteration left ref-updates it produced to
\* the next one
C28_ProducedWaited ==
    /\ \E i \in 1..Len(obs.drained) :
           /\ obs.drained[i].k = "vars"
           /\ obs.drained[i].vars # <<>>
           /\ obs.drained[i - 1].k = "refs"
    /\ \E e \in 1..Len(obs.drained) :
           /\ obs.drained[e].k = "end"
           /\ obs.drained[e].refs # <<>>

\* C29: a turn of the loop, the change-log it processes included, runs at
\* most RefsBudget iterations of the loop of update_refs in all.
C29_TurnWithinBudget ==
    (pc = "loop" /\ obs.arm # "init") => obs.total <= RefsBudget

-----------------------------------------------------------------------------
(* The Channel: u32 length prefixed messages over a TcpStream.  The model   *)
(* follows one direction of one connection: the sender's Channel queues     *)
(* into outgoing and flushes to the socket, the receiver's Channel fills    *)
(* incoming from it.  A byte of the model holds a digit below ByteBase, so  *)
(* a u32 of four bytes runs to ByteBase^4 - 1: the width is scaled down,    *)
(* the arithmetic on it is the code's.                                      *)

ByteBase == 2
\* mem::size_of::<u32>()
U32Size == 4
\* u32::max_value()
U32Max == ByteBase ^ U32Size - 1
BUF == 4096

\* n as u32
AsU32(n) == n % (U32Max + 1)

RECURSIVE BigEndian(_, _)
\* the size bytes of n, the most significant first
BigEndian(n, size) ==
    IF size = 0 THEN <<>>
    ELSE Append(BigEndian(n \div ByteBase, size - 1), n % ByteBase)

RECURSIVE ReadBigEndian(_)
ReadBigEndian(bytes) ==
    IF bytes = <<>> THEN 0
    ELSE ReadBigEndian(SubSeq(bytes, 1, Len(bytes) - 1)) * ByteBase + bytes[Len(bytes)]

RECURSIVE ReadLittleEndian(_)
ReadLittleEndian(bytes) ==
    IF bytes = <<>> THEN 0
    ELSE bytes[1] + ByteBase * ReadLittleEndian(Tail(bytes))

\* a u32 read with the least significant byte first
read_u32_le(buf) == ReadLittleEndian(SubSeq(buf, 1, U32Size))

\* BufMut::put_u32
put_u32(buf, n) == buf \o BigEndian(n, U32Size)

\* BigEndian::read_u32
read_u32(buf) == ReadBigEndian(SubSeq(buf, 1, U32Size))

\* the bytes of buf from the one after the first n
Advance(buf, n) == SubSeq(buf, n + 1, Len(buf))

\* Channel::new, with what each end did so far: tx the sender (its last
\* call and result, the payloads it queued, the frames in outgoing, the
\* frames it handed to the socket, whether a write stopped part-way), rx the
\* receiver (its last result, the payloads it returned, how many of them
\* after the socket was at end of file)
ChannelNew ==
    [open |-> TRUE,
     socket |-> [bytes |-> <<>>, eof |-> FALSE],
     outgoing |-> <<>>,
     incoming |-> <<>>,
     tx |-> [op |-> "", len |-> 0, r |-> "", queued |-> <<>>, frames |-> <<>>,
             handed |-> <<>>, torn |-> FALSE],
     rx |-> [r |-> "", receiving |-> FALSE, received |-> <<>>, late |-> 0,
             op |-> "", batch |-> 0, looped |-> FALSE]]

\* the result of a call on the Channel ch
Res(ch, r) == [ch |-> ch, r |-> r]

\* Channel::queue_send_raw
queue_send_raw(ch, msg) ==
    IF Len(msg) > U32Max THEN Res(ch, "InvalidData")
    ELSE Res([ch EXCEPT !.outgoing = put_u32(@, AsU32(Len(msg))) \o msg], "Ok")

\* a message given to queue_send, by what rmp_serde::encode::write_named does
\* with it: the bytes it writes, and whether it fails after them
Packed(bytes) == [bytes |-> bytes, ok |-> TRUE]
Unpackable(bytes) == [bytes |-> bytes, ok |-> FALSE]

\* Channel::queue_send: the header is written once the message was
\* serialized, from the length of what was written
queue_send(ch, msg) ==
    IF msg.ok
    THEN Res([ch EXCEPT !.outgoing = put_u32(@, AsU32(Len(msg.bytes))) \o msg.bytes],
             "Ok")
    ELSE Res(ch, "InvalidData")

\* a flush that does not clear outgoing
FlushKeeps(ch, n) ==
    Res([ch EXCEPT !.socket.bytes = @ \o SubSeq(ch.outgoing, 1, n)],
        IF n = Len(ch.outgoing) THEN "Ok" ELSE "WriteError")

\* Channel::flush, when write_all gets n bytes of outgoing into the socket:
\* all of them and Ok, or fewer and an error
flush(ch, n) ==
    Res([ch EXCEPT !.socket.bytes = @ \o SubSeq(ch.outgoing, 1, n),
                   !.outgoing = <<>>],
        IF n = Len(ch.outgoing) THEN "Ok" ELSE "WriteError")

\* Channel::send_one: queue_send(msg)?, then flush
send_one(ch, msg, n) ==
    LET q == queue_send(ch, msg)
    IN  IF q.r # "Ok" THEN q ELSE flush(q.ch, n)

\* Channel::fill_buffer, when the read returns n bytes; 0 at the end of file
fill_buffer(ch, n) ==
    IF n <= 0 THEN Res(ch, "UnexpectedEof")
    ELSE Res([ch EXCEPT !.incoming = @ \o SubSeq(ch.socket.bytes, 1, n),
                        !.socket.bytes = Advance(@, n)],
             "Ok")

\* Option<Bytes>
NoBytes == [some |-> FALSE, msg |-> <<>>]
SomeBytes(msg) == [some |-> TRUE, msg |-> msg]

\* a decode that takes the length prefix off the buffer before the payload
\* has arrived
DecodePrefixFirst(ch) ==
    IF Len(ch.incoming) < U32Size THEN Res(ch, NoBytes)
    ELSE LET len == read_u32(ch.incoming)
         IN  IF Len(ch.incoming) - U32Size < len
             THEN Res([ch EXCEPT !.incoming = Advance(@, U32Size)], NoBytes)
             ELSE Res([ch EXCEPT !.incoming = Advance(@, U32Size + len)],
                      SomeBytes(SubSeq(ch.incoming, U32Size + 1, U32Size + len)))

\* Channel::decode_from_buffer
decode_from_buffer(ch) ==
    IF Len(ch.incoming) < U32Size THEN Res(ch, NoBytes)
    ELSE LET len == read_u32(ch.incoming)
         IN  IF Len(ch.incoming) - U32Size < len THEN Res(ch, NoBytes)
             ELSE Res([ch EXCEPT !.incoming = Advance(@, U32Size + len)],
                      SomeBytes(SubSeq(ch.incoming, U32Size + 1, U32Size + len)))

\* what socket.read can return: nothing yet while the stream is open and
\* empty, 0 at the end of file, else some of the bytes that arrived, at most
\* BUF of them
Reads(ch) ==
    IF ch.socket.bytes = <<>> THEN (IF ch.socket.eof THEN {0} ELSE {})
    ELSE 1..(IF Len(ch.socket.bytes) < BUF THEN Len(ch.socket.bytes) ELSE BUF)

\* one turn of the loop of receive_raw that fills before it decodes
ReceiveTurnFillFirst(ch, n) ==
    LET f == fill_buffer(ch, n)
        d == decode_from_buffer(f.ch)
    IN  IF f.r # "Ok" THEN Res(f.ch, [r |-> f.r, msg |-> <<>>])
        ELSE IF d.r.some THEN Res(d.ch, [r |-> "Ok", msg |-> d.r.msg])
        ELSE Res(d.ch, [r |-> "Loop", msg |-> <<>>])

\* one turn of the loop of Channel::receive_raw, the read returning n bytes
\* when the turn comes to fill_buffer: the message, the error, or the loop
\* goes on
ReceiveTurn(ch, n) ==
    LET d == decode_from_buffer(ch)
        f == fill_buffer(d.ch, n)
    IN  IF d.r.some THEN Res(d.ch, [r |-> "Ok", msg |-> d.r.msg])
        ELSE IF f.r # "Ok" THEN Res(f.ch, [r |-> f.r, msg |-> <<>>])
        ELSE Res(f.ch, [r |-> "Loop", msg |-> <<>>])

RECURSIVE DrainFrames(_, _)
\* while let Some(b) = self.decode_from_buffer() { batch.push(b) }
DrainFrames(ch, batch) ==
    LET d == decode_from_buffer(ch)
    IN  IF d.r.some THEN DrainFrames(d.ch, Append(batch, d.r.msg)) ELSE Res(ch, batch)

\* Channel::receive_batch_raw, by the turns of the loop of its receive_raw:
\* the turn that returns a message goes on to take every whole frame of the
\* buffer; batch is what the call pushed
ReceiveBatchTurn(ch, n) ==
    LET t == ReceiveTurn(ch, n)
        d == DrainFrames(t.ch, <<t.r.msg>>)
    IN  IF t.r.r = "Ok" THEN Res(d.ch, [r |-> "Ok", batch |-> d.r])
        ELSE Res(t.ch, [r |-> t.r.r, batch |-> <<>>])

\* whether a turn of receive_raw can run: a frame is buffered, or the read
\* returns
CanReceive(ch) == decode_from_buffer(ch).r.some \/ Reads(ch) # {}

\* ---- the connection
\* how many frames the sender queues
MaxQueued == 2

Bytes(n, b) == [i \in 1..n |-> b]

\* the payloads given to queue_send_raw: the empty one, one that reads as a
\* frame itself, one of the greatest length and one that is too long
Payloads ==
    {<<>>, BigEndian(1, U32Size) \o <<1>>, Bytes(U32Max, 1), Bytes(U32Max + 1, 0)}

\* the messages given to queue_send: a short one, one whose serialization is
\* too long, and one that fails to serialize after a byte was written
Messages == {Packed(<<1, 0>>), Packed(Bytes(U32Max + 1, 1)), Unpackable(<<1>>)}

\* how far a write_all that fails can get
WriteStops(ch) == {n \in {0, 1, Len(ch.outgoing) - 1} : n >= 0 /\ n < Len(ch.outgoing)}

\* no container runs
NoContainer ==
    /\ var = EmptyMap /\ sub = EmptyMap /\ rpc = EmptyMap /\ refs = EmptyMap
    /\ forward_refs = EmptyMap
    /\ var_updates = <<>> /\ ref_updates = <<>>
    /\ variables = EmptyMap
    /\ events = <<>>
    /\ by_id = EmptyMap /\ by_path = EmptyMap
    /\ db = EmptyMap /\ pending = EmptyPending
    /\ vals = EmptyMap /\ dvals = EmptyMap
    /\ compiled = EmptyMap
    /\ locked = {}
    /\ fifos = EmptyMap
    /\ next_id = [expr |-> 1, sub |-> 1, val |-> 1, call |-> 1, task |-> 1]
    /\ rpcs = NoRpcs
    /\ ctrl_c = FALSE
    /\ inputs = 0
    /\ obs = NoObs

InitCh ==
    /\ pc = "channel"
    /\ NoContainer
    /\ channel = ChannelNew
    /\ resolver = NoResolver

\* the sender's call op, given len bytes, returned q: new is the frame it
\* queued, if it queued one, and flushed tells whether it came to write_all
TxDone(op, len, q, new, flushed) ==
    LET ids == [i \in 1..Len(new) |-> Len(channel.tx.queued) + i]
    IN  /\ channel' =
              [q.ch EXCEPT
                  !.tx.op = op, !.tx.len = len, !.tx.r = q.r,
                  !.tx.queued = @ \o new,
                  !.tx.frames = IF q.ch.outgoing = <<>> THEN <<>> ELSE @ \o ids,
                  !.tx.handed = IF flushed THEN @ \o channel.tx.frames \o ids ELSE @,
                  !.tx.torn = @ \/ q.r = "WriteError"]
        /\ UNCHANGED <<pc, lcvars, resolver>>

\* the frame a queue_send or queue_send_raw that returned r queued
Queued(r, payload, raw) ==
    IF r = "Ok" THEN <<[payload |-> payload, raw |-> raw]>> ELSE <<>>

CanSend ==
    /\ pc = "channel"
    /\ ~channel.socket.eof
    /\ Len(channel.tx.queued) < MaxQueued

ChQueueSendRaw(msg) ==
    /\ CanSend
    /\ \E q \in {queue_send_raw(channel, msg)} :
           TxDone("queue_send_raw", Len(msg), q, Queued(q.r, msg, TRUE), FALSE)

ChQueueSend(msg) ==
    /\ CanSend
    /\ \E q \in {queue_send(channel, msg)} :
           TxDone("queue_send", Len(msg.bytes), q, Queued(q.r, msg.bytes, FALSE),
                  FALSE)

ChFlush(n) ==
    /\ pc = "channel"
    /\ ~channel.socket.eof
    /\ TxDone("flush", Len(channel.outgoing), flush(channel, n), <<>>, TRUE)

ChSendOne(msg, n) ==
    /\ CanSend
    /\ \E q \in {send_one(channel, msg, n)} :
           TxDone("send_one", Len(msg.bytes), q,
                  Queued(queue_send(channel, msg).r, msg.bytes, FALSE),
                  q.r # "InvalidData")

\* the sender shuts the stream down: the receiver reads the end of file once
\* it has read what was written
ChShutdown ==
    /\ pc = "channel"
    /\ ~channel.socket.eof
    /\ channel' = [channel EXCEPT !.socket.eof = TRUE]
    /\ UNCHANGED <<pc, lcvars, resolver>>

\* a turn of the receiver's call op left ch with the result r and returned
\* the frames batch; looped tells whether the call had a turn before this one
RxDone(op, ch, r, batch) ==
    /\ channel' =
          [ch EXCEPT
              !.rx.r = r,
              !.rx.receiving = (r = "Loop"),
              !.rx.received = @ \o batch,
              !.rx.late = IF /\ r = "Ok"
                             /\ channel.socket.eof /\ channel.socket.bytes = <<>>
                          THEN 1 ELSE @,
              !.rx.op = op,
              !.rx.batch = Len(batch),
              !.rx.looped = channel.rx.receiving]
    /\ UNCHANGED <<pc, lcvars, resolver>>

ChReceiveRaw ==
    /\ pc = "channel"
    /\ CanReceive(channel)
    /\ \E n \in (IF Reads(channel) = {} THEN {0} ELSE Reads(channel)) :
           \E t \in {ReceiveTurn(channel, n)} :
               RxDone("receive_raw", t.ch, t.r.r,
                      IF t.r.r = "Ok" THEN <<t.r.msg>> ELSE <<>>)

ChReceiveBatchRaw ==
    /\ pc = "channel"
    /\ CanReceive(channel)
    /\ \E n \in (IF Reads(channel) = {} THEN {0} ELSE Reads(channel)) :
           \E t \in {ReceiveBatchTurn(channel, n)} :
               RxDone("receive_batch_raw", t.ch, t.r.r, t.r.batch)

NextCh ==
    \/ \E msg \in Payloads : ChQueueSendRaw(msg)
    \/ \E msg \in Messages : ChQueueSend(msg)
    \/ \E n \in WriteStops(channel) \cup {Len(channel.outgoing)} : ChFlush(n)
    \/ \E msg \in Messages :
           \E n \in {1, Len(channel.outgoing) + U32Size + Len(msg.bytes)} :
               ChSendOne(msg, n)
    \/ ChShutdown
    \/ ChReceiveRaw
    \/ ChReceiveBatchRaw

SpecCh == InitCh /\ [][NextCh]_vars

-----------------------------------------------------------------------------
(* Properties of the Channel.                                               *)

\* encode(p): the frame of the payload p
Frame(p) == BigEndian(Len(p), U32Size) \o p

RECURSIVE FramesOf(_)
\* the concatenation of the frames of the payloads ps
FramesOf(ps) == IF ps = <<>> THEN <<>> ELSE Frame(Head(ps)) \o FramesOf(Tail(ps))

\* the payloads the sender queued so far
QueuedPayloads == [i \in 1..Len(channel.tx.queued) |-> channel.tx.queued[i].payload]

\* every frame was queued with queue_send_raw and no write failed
RawOnly ==
    /\ pc = "channel"
    /\ ~channel.tx.torn
    /\ \A i \in 1..Len(channel.tx.queued) : channel.tx.queued[i].raw

\* C12: for every sequence of payloads of at most u32::MAX bytes queued with
\* queue_send_raw and flushed, the receiver returns the same payloads in the
\* same order: what it returned so far are the first payloads queued, and the
\* bytes still on their way are the frames of the other payloads, one after
\* the other.
C12_RoundTrip ==
    RawOnly =>
        /\ Len(channel.rx.received) <= Len(QueuedPayloads)
        /\ channel.rx.received =
              SubSeq(QueuedPayloads, 1, Len(channel.rx.received))
        /\ channel.incoming \o channel.socket.bytes \o channel.outgoing =
              FramesOf(SubSeq(QueuedPayloads, Len(channel.rx.received) + 1,
                              Len(QueuedPayloads)))

\* a payload of the greatest length and one that reads as a frame were
\* queued, flushed and received
C12_AllReceived ==
    /\ RawOnly
    /\ channel.rx.received = QueuedPayloads
    /\ \E i \in 1..Len(QueuedPayloads) : Len(QueuedPayloads[i]) = U32Max
    /\ \E i \in 1..Len(QueuedPayloads) :
           QueuedPayloads[i] = BigEndian(1, U32Size) \o <<1>>

\* the sender queued a frame, or was refused
QueueStep ==
    /\ pc = "channel"
    /\ channel'.tx # channel.tx
    /\ channel'.tx.op \in {"queue_send_raw", "queue_send"}

\* what the step appended to outgoing
Appended == Advance(channel'.outgoing, Len(channel.outgoing))

\* C13: queueing a payload longer than u32::MAX fails with InvalidData and
\* leaves outgoing as it was, with queue_send_raw and with queue_send alike;
\* whatever a queue call appends to outgoing is a frame whose length prefix
\* is the length of its payload.
C13_OversizedRejected ==
    [][QueueStep =>
           /\ channel'.tx.len > U32Max =>
                  /\ channel'.tx.r = "InvalidData"
                  /\ channel'.outgoing = channel.outgoing
           /\ channel'.outgoing # channel.outgoing =>
                  /\ Len(Appended) >= U32Size
                  /\ ReadBigEndian(SubSeq(Appended, 1, U32Size)) =
                         Len(Appended) - U32Size]_vars

\* the last call of the sender came to write_all
Flushed ==
    /\ pc = "channel"
    /\ \/ channel.tx.op = "flush"
       \/ channel.tx.op = "send_one" /\ channel.tx.r # "InvalidData"

\* C14: once flush has returned, with Ok or with an error, outgoing is
\* empty; over every sequence of queue and flush calls no frame is handed to
\* the socket twice.
C14_FlushDrainsOnce ==
    /\ Flushed => channel.outgoing = <<>>
    /\ pc = "channel" =>
           \A i, j \in 1..Len(channel.tx.handed) :
               i # j => channel.tx.handed[i] # channel.tx.handed[j]

\* a flush of queued frames failed after an earlier flush: frames were
\* handed to the socket by two calls and outgoing is empty
C14_FailedAfterFlush ==
    /\ Flushed
    /\ channel.tx.r = "WriteError"
    /\ Len(channel.tx.handed) >= 2
    /\ channel.socket.bytes # <<>>
    /\ channel.outgoing = <<>>

\* the buffer begins with a complete frame
Complete(buf) ==
    /\ Len(buf) >= U32Size
    /\ Len(buf) - U32Size >= ReadBigEndian(SubSeq(buf, 1, U32Size))

\* the socket reports the end of file to the next read
AtEof == channel.socket.eof /\ channel.socket.bytes = <<>>

\* a call of receive_raw or receive_batch_raw returned, or went round its loop
RxStep == pc = "channel" /\ channel'.rx # channel.rx

\* C15: a receive that comes to fill the buffer when the socket is at the
\* end of file returns UnexpectedEof; it does so only when incoming holds no
\* complete frame, so a complete frame that is buffered is returned first.
C15_EofAfterFrames ==
    [][RxStep =>
           /\ (AtEof /\ ~Complete(channel.incoming)) =>
                  channel'.rx.r = "UnexpectedEof"
           /\ channel'.rx.r = "UnexpectedEof" =>
                  AtEof /\ ~Complete(channel.incoming)
           /\ Complete(channel.incoming) =>
                  /\ channel'.rx.r = "Ok"
                  /\ Len(channel'.rx.received) >= Len(channel.rx.received) + 1]_vars

\* the end of file was reported after a frame that was buffered when the
\* socket came to its end was returned
C15_FrameThenEof ==
    /\ pc = "channel"
    /\ channel.rx.r = "UnexpectedEof"
    /\ channel.rx.late >= 1

RECURSIVE Parse(_)
\* the payloads of the whole frames bytes starts with, one after the other
Parse(bytes) ==
    IF ~Complete(bytes) THEN <<>>
    ELSE LET len == ReadBigEndian(SubSeq(bytes, 1, U32Size))
         IN  <<SubSeq(bytes, U32Size + 1, U32Size + len)>>
                 \o Parse(Advance(bytes, U32Size + len))

\* the bytes the receiver has not yet returned as frames: those in incoming
\* and those the socket still holds
Unreturned(ch) == ch.incoming \o ch.socket.bytes

\* the frames the step returned
NewFrames == SubSeq(channel'.rx.received, Len(channel.rx.received) + 1,
                     Len(channel'.rx.received))

\* the step is a turn of receive_raw or receive_batch_raw
ReceiveStep ==
    /\ pc = "channel"
    /\ channel'.tx = channel.tx
    /\ channel'.socket.eof = channel.socket.eof

\* C40: the frames receive_raw and receive_batch_raw return are the whole
\* frames of the bytes received, in their order, however the socket splits
\* the bytes into reads: a turn returns the first whole frames of the bytes
\* not yet returned and leaves the bytes after them, losing and adding none;
\* decode_from_buffer gives None and leaves incoming as it is while incoming
\* holds less than a whole frame, a turn that does not return Ok returns no
\* frame, and after receive_batch_raw returned Ok incoming holds no whole
\* frame.
C40_FramesFollowBytes ==
    [][ReceiveStep =>
          /\ Len(channel'.rx.received) >= Len(channel.rx.received)
          /\ FramesOf(NewFrames) \o Unreturned(channel') = Unreturned(channel)
          /\ NewFrames # <<>> =>
                 NewFrames = SubSeq(Parse(Unreturned(channel)), 1, Len(NewFrames))
          /\ ~Complete(channel.incoming) =>
                 decode_from_buffer(channel) = Res(channel, NoBytes)
          /\ channel'.rx.r # "Ok" => channel'.rx.received = channel.rx.received
          /\ (channel'.rx.op = "receive_batch_raw" /\ channel'.rx.r = "Ok") =>
                 /\ channel'.rx.batch >= 1
                 /\ ~Complete(channel'.incoming)]_vars

\* receive_batch_raw returned two frames at once, after a read that ended
\* inside a frame had sent its receive_raw around the loop
C40_BatchOfTwoAfterSplit ==
    /\ pc = "channel"
    /\ channel.rx.op = "receive_batch_raw"
    /\ channel.rx.r = "Ok"
    /\ channel.rx.batch = 2
    /\ channel.rx.looped

-----------------------------------------------------------------------------
(* The resolver server: the store, handle_batch and one client_loop task    *)
(* for each connection.  A client_loop is followed from await to await: the *)
(* hello, then one turn of its loop per step.                               *)

\* static MAX_TTL, in seconds
MAX_TTL == 3600
\* static READER_TTL, in seconds
READER_TTL == 120

\* a Path: whether it is absolute, and its parts
AbsPath(parts) == [abs |-> TRUE, parts |-> parts]
RelPath(parts) == [abs |-> FALSE, parts |-> parts]

\* Path::is_absolute
is_absolute(path) == path.abs

\* enum ClientHello
ReadOnly == [kind |-> "ReadOnly", ttl |-> 0, write_addr |-> ""]
WriteOnly(ttl, write_addr) == [kind |-> "WriteOnly", ttl |-> ttl, write_addr |-> write_addr]
NoHello == [kind |-> "", ttl |-> 0, write_addr |-> ""]

\* enum ToResolver
Resolve(paths) == [kind |-> "Resolve", paths |-> paths]
List(path) == [kind |-> "List", paths |-> <<path>>]
ToPublish(paths) == [kind |-> "Publish", paths |-> paths]
Unpublish(paths) == [kind |-> "Unpublish", paths |-> paths]
Clear == [kind |-> "Clear", paths |-> <<>>]
Heartbeat == [kind |-> "Heartbeat", paths |-> <<>>]

\* enum FromResolver; the Vecs of Resolved and List are kept as sets
Resolved(addrs) == [kind |-> "Resolved", v |-> addrs]
Listed(paths) == [kind |-> "List", v |-> paths]
Published == [kind |-> "Published", v |-> {}]
Unpublished == [kind |-> "Unpublished", v |-> {}]
Error(msg) == [kind |-> "Error", v |-> msg]

\* ---- Store<ClientInfo>: by_path gives the addresses that publish a path,
\* clinfo the ClientInfo of a write address, Some(tx_stop) as the client that
\* holds rx_stop and None as 0
StoreNew == [by_path |-> EmptyMap, clinfo |-> EmptyMap]

\* Store::publish
store_publish(s, path, addr) == [s EXCEPT !.by_path = SetInsert(@, path, addr)]

\* Store::unpublish
store_unpublish(s, path, addr) ==
    IF Has(s.by_path, path) THEN [s EXCEPT !.by_path[path] = @ \ {addr}] ELSE s

\* Store::unpublish_addr
store_unpublish_addr(s, addr) ==
    [s EXCEPT !.by_path = [p \in DOMAIN @ |-> @[p] \ {addr}]]

\* Store::gc
store_gc(s) ==
    [s EXCEPT !.by_path = [p \in {q \in DOMAIN @ : @[q] # {}} |-> @[p]]]

\* Store::resolve
store_resolve(s, path) == IF Has(s.by_path, path) THEN s.by_path[path] ELSE {}

\* Store::list: the children of parent on the way to a published path
store_list(s, parent) ==
    {AbsPath(SubSeq(p.parts, 1, Len(parent.parts) + 1)) :
        p \in {q \in DOMAIN s.by_path :
                  /\ s.by_path[q] # {}
                  /\ Len(q.parts) > Len(parent.parts)
                  /\ SubSeq(q.parts, 1, Len(parent.parts)) = parent.parts}}

\* a loop over paths that publishes the first path only
PublishFirst(s, paths, write_addr) ==
    IF paths = <<>> THEN s ELSE store_publish(s, Head(paths), write_addr)

RECURSIVE PublishAll(_, _, _)
\* for path in paths { s.publish(path, write_addr) }
PublishAll(s, paths, write_addr) ==
    IF paths = <<>> THEN s
    ELSE PublishAll(store_publish(s, Head(paths), write_addr), Tail(paths), write_addr)

RECURSIVE UnpublishAll(_, _, _)
\* for path in paths { s.unpublish(path, write_addr) }
UnpublishAll(s, paths, write_addr) ==
    IF paths = <<>> THEN s
    ELSE UnpublishAll(store_unpublish(s, Head(paths), write_addr), Tail(paths),
                      write_addr)

\* what handle_batch does with one message: [s, replies], replies what it
\* queues on the connection
Handled(s, replies) == [s |-> s, replies |-> replies]

\* handle_batch, the arm of a connection without write address
HandleRead(s, m) ==
    CASE m.kind = "Heartbeat" -> Handled(s, <<>>)
      [] m.kind = "Resolve" ->
            Handled(s, <<Resolved([i \in 1..Len(m.paths) |->
                                      store_resolve(s, m.paths[i])])>>)
      [] m.kind = "List" -> Handled(s, <<Listed(store_list(s, m.paths[1]))>>)
      [] OTHER -> Handled(s, <<Error("read only")>>)

\* handle_batch, the arm of a connection with the write address write_addr
HandleWrite(s, m, write_addr) ==
    CASE m.kind = "Heartbeat" -> Handled(s, <<>>)
      [] m.kind \in {"Resolve", "List"} -> Handled(s, <<Error("write only")>>)
      [] m.kind = "Publish" ->
            IF ~(\A i \in 1..Len(m.paths) : is_absolute(m.paths[i]))
            THEN Handled(s, <<Error("absolute paths required")>>)
            ELSE Handled(PublishAll(s, m.paths, write_addr), <<Published>>)
      [] m.kind = "Unpublish" ->
            Handled(UnpublishAll(s, m.paths, write_addr), <<Unpublished>>)
      [] m.kind = "Clear" ->
            Handled(store_gc(store_unpublish_addr(s, write_addr)), <<Unpublished>>)

\* a handle_batch that serves every message on every connection, a
\* connection without write address under the address of no one
HandleAny(s, m, wa) ==
    IF m.kind \in {"Resolve", "List"} THEN HandleRead(s, m) ELSE HandleWrite(s, m, wa)

\* handle_batch, for one message: wa is the write address, "" for None
HandleMsg(s, m, wa) == IF wa = "" THEN HandleRead(s, m) ELSE HandleWrite(s, m, wa)

RECURSIVE handle_batch(_, _, _)
\* handle_batch: the messages in their order; queue_send of a FromResolver
\* does not fail
handle_batch(s, msgs, wa) ==
    IF msgs = <<>> THEN Handled(s, <<>>)
    ELSE LET h == HandleMsg(s, Head(msgs), wa)
             t == handle_batch(h.s, Tail(msgs), wa)
         IN  Handled(t.s, h.replies \o t.replies)

\* ---- client_loop
\* the task of a connection that was accepted: it waits for the hello; act
\* is the flag of the loop, stop whether rx_stop or server_stop is ready,
\* tick whether the interval is ready, inbox the batches that arrived, con
\* whether the Channel is still Some; r how the task returned; sent, busy
\* and quiet tell what the client did: how many batches it sent, whether it
\* sent one since the interval ticked, whether it had sent none when it
\* ticked
ClientNew ==
    [st |-> "hello", hello |-> NoHello, wa |-> "", ttl |-> 0, act |-> FALSE,
     stop |-> FALSE, tick |-> FALSE, inbox |-> <<>>, con |-> TRUE, eof |-> FALSE,
     greeted |-> FALSE, ttl_expired |-> FALSE, r |-> "",
     sent |-> 0, busy |-> FALSE, quiet |-> FALSE]

\* the task of the client returned r: its connection and its timers are
\* dropped with it
Returned(cl, r) == [ClientNew EXCEPT !.st = "done", !.r = r, !.greeted = cl.greeted]

\* a check of the ttl that refuses none
TtlNeverInvalid(ttl) == FALSE

\* if ttl <= 0 || ttl > MAX_TTL
TtlInvalid(ttl) == ttl <= 0 \/ ttl > MAX_TTL

\* old_stop.send(()), stop.send(()): the client that holds the receiver
\* sees rx_stop ready
StopSent(clients, info) ==
    IF info # 0 /\ Has(clients, info) THEN [clients EXCEPT ![info].stop = TRUE]
    ELSE clients

\* client_loop up to its loop, with the hello that arrived; ok tells
\* whether send_one(ServerHello) succeeded within HELLO_TIMEOUT
Hello(rs, c, ok) ==
    LET cl == rs.clients[c]
        hello == cl.hello
        entered(r, ttl_expired) ==
            [r EXCEPT !.clients[c] =
                IF ok
                THEN [@ EXCEPT !.st = "loop", !.hello = NoHello, !.greeted = TRUE,
                               !.ttl_expired = ttl_expired,
                               !.wa = hello.write_addr,
                               !.ttl = IF hello.kind = "ReadOnly" THEN READER_TTL
                                       ELSE hello.ttl]
                ELSE Returned([@ EXCEPT !.hello = NoHello], "io")]
    IN  IF hello.kind = "ReadOnly" THEN entered(rs, FALSE)
        ELSE IF TtlInvalid(hello.ttl)
        THEN [rs EXCEPT !.clients[c] = Returned([@ EXCEPT !.hello = NoHello],
                                                "invalid ttl")]
        ELSE IF ~Has(rs.store.clinfo, hello.write_addr)
        THEN entered([rs EXCEPT !.store.clinfo = MapPut(@, hello.write_addr, c)],
                     TRUE)
        ELSE entered([rs EXCEPT
                         !.store.clinfo[hello.write_addr] = c,
                         !.clients = StopSent(@, rs.store.clinfo[hello.write_addr])],
                     FALSE)

\* the Timeout arm
OnTimeout(rs, c) ==
    LET cl == rs.clients[c]
        info == IF Has(rs.store.clinfo, cl.wa) THEN rs.store.clinfo[cl.wa] ELSE 0
        gone(r) == [r EXCEPT !.clients[c] = Returned([@ EXCEPT !.tick = FALSE],
                                                     "client timed out")]
    IN  IF cl.act THEN [rs EXCEPT !.clients[c].act = FALSE, !.clients[c].tick = FALSE]
        ELSE IF cl.wa = "" THEN gone(rs)
        ELSE gone([rs EXCEPT
                      !.store = store_gc(store_unpublish_addr(
                                   [@ EXCEPT !.clinfo = MapDel(@, cl.wa)], cl.wa)),
                      !.clients = StopSent(@, info)])

\* the Msg(Ok(())) arm: ok tells whether the flush succeeded
OnBatch(rs, c, ok) ==
    LET cl == rs.clients[c]
        h == handle_batch(rs.store, Head(cl.inbox), cl.wa)
    IN  [rs EXCEPT !.store = h.s,
                   !.clients[c].act = TRUE,
                   !.clients[c].inbox = Tail(@),
                   !.clients[c].con = ok]

\* the Msg(Err(e)) arm
OnReadError(rs, c) == [rs EXCEPT !.clients[c].con = FALSE]

\* ---- the server and its clients
\* how many connections the server accepts, how many batches a client sends
MaxClients == 2
MaxBatches == 1

AddrA == "127.0.0.1:1"
AddrB == "127.0.0.1:2"

FooBar == AbsPath(<<"foo", "bar">>)
FooBaz == AbsPath(<<"foo", "baz">>)
Foo == AbsPath(<<"foo">>)
Root == AbsPath(<<>>)

\* the hellos the clients send
Hellos ==
    {ReadOnly, WriteOnly(MAX_TTL, AddrA), WriteOnly(1, AddrB),
     WriteOnly(0, AddrA), WriteOnly(MAX_TTL + 1, AddrA)}

\* the batches the clients send, each what one receive_batch returns
Batches ==
    {<<ToPublish(<<FooBar, FooBaz>>)>>,
     <<ToPublish(<<FooBar, RelPath(<<"foo">>)>>)>>,
     <<ToPublish(<<FooBar, FooBaz>>), Unpublish(<<FooBar>>)>>,
     <<Heartbeat, Clear>>,
     <<Resolve(<<FooBar, FooBaz>>), List(Foo)>>,
     <<List(Root)>>}

\* what the step that led here did, when it was a step of a client_loop
NoLast ==
    [client |-> 0, kind |-> "", hello |-> NoHello, batch |-> <<>>, replies |-> <<>>]

\* Server::new: the server runs, no connection was accepted; pub is what the
\* writers were told: the paths answered with Published under an address and
\* not unpublished, cleared or timed out since
ServerNew ==
    [running |-> TRUE, stopped |-> FALSE, store |-> StoreNew, clients |-> EmptyMap,
     last |-> NoLast, pub |-> {}]

\* the messages of a batch that are answered
Answered(batch) == SelectSeq(batch, LAMBDA m : m.kind # "Heartbeat")

RECURSIVE Told(_, _, _, _)
\* pub after the writer of wa got replies to the messages msgs
Told(pub, msgs, replies, wa) ==
    IF msgs = <<>> \/ replies = <<>> THEN pub
    ELSE LET m == Head(msgs)
             paths == {m.paths[i] : i \in 1..Len(m.paths)}
             next ==
                 CASE Head(replies).kind = "Published" ->
                          pub \cup {<<p, wa>> : p \in paths}
                   [] Head(replies).kind = "Unpublished" /\ m.kind = "Unpublish" ->
                          pub \ {<<p, wa>> : p \in paths}
                   [] Head(replies).kind = "Unpublished" /\ m.kind = "Clear" ->
                          {e \in pub : e[2] # wa}
                   [] OTHER -> pub
         IN  Told(next, Tail(msgs), Tail(replies), wa)

InitRs ==
    /\ pc = "resolver"
    /\ NoContainer
    /\ channel = NoChannel
    /\ resolver = ServerNew

\* a step of the client_loop of c left rs
RsStep(rs, c, kind, hello, batch, replies) ==
    /\ resolver' = [rs EXCEPT !.last = [client |-> c, kind |-> kind, hello |-> hello,
                                        batch |-> batch, replies |-> replies]]
    /\ UNCHANGED <<pc, lcvars, channel>>

\* a step of the server_loop or of a client left rs
RsBecomes(rs) ==
    /\ resolver' = [rs EXCEPT !.last = NoLast]
    /\ UNCHANGED <<pc, lcvars, channel>>

\* server_loop accepts a connection and spawns its client_loop
RsAccept ==
    /\ pc = "resolver"
    /\ ~resolver.stopped
    /\ Cardinality(DOMAIN resolver.clients) < MaxClients
    /\ RsBecomes([resolver EXCEPT
                     !.clients = MapPut(@, Cardinality(DOMAIN @) + 1, ClientNew)])

\* the Server is dropped: stop is sent, server_stop is ready in every task
RsServerStop ==
    /\ pc = "resolver"
    /\ ~resolver.stopped
    /\ RsBecomes([resolver EXCEPT !.stopped = TRUE])

\* the client's hello arrives
RsSendHello(c, hello) ==
    /\ pc = "resolver"
    /\ resolver.clients[c].st = "hello"
    /\ resolver.clients[c].hello = NoHello
    /\ RsBecomes([resolver EXCEPT !.clients[c].hello = hello])

\* no hello within HELLO_TIMEOUT
RsHelloTimeout(c) ==
    /\ pc = "resolver"
    /\ resolver.clients[c].st = "hello"
    /\ resolver.clients[c].hello = NoHello
    /\ RsStep([resolver EXCEPT !.clients[c] = Returned(@, "hello timeout")],
              c, "hello timeout", NoHello, <<>>, <<>>)

\* client_loop receives the hello and answers it
RsHello(c, ok) ==
    /\ pc = "resolver"
    /\ resolver.clients[c].st = "hello"
    /\ resolver.clients[c].hello # NoHello
    /\ RsStep(Hello(resolver, c, ok), c, "hello", resolver.clients[c].hello, <<>>,
              <<>>)

\* the client sends a batch, which arrives
RsSendBatch(c, batch) ==
    /\ pc = "resolver"
    /\ resolver.clients[c].st = "loop"
    /\ ~resolver.clients[c].eof
    /\ resolver.clients[c].sent < MaxBatches
    /\ RsBecomes([resolver EXCEPT !.clients[c].inbox = Append(@, batch),
                                  !.clients[c].sent = @ + 1,
                                  !.clients[c].busy = TRUE])

\* the client closes the connection
RsDisconnect(c) ==
    /\ pc = "resolver"
    /\ resolver.clients[c].st = "loop"
    /\ ~resolver.clients[c].eof
    /\ RsBecomes([resolver EXCEPT !.clients[c].eof = TRUE])

\* the ttl of the client has passed once more: its interval is ready
RsTick(c) ==
    /\ pc = "resolver"
    /\ resolver.clients[c].st = "loop"
    /\ ~resolver.clients[c].tick
    /\ RsBecomes([resolver EXCEPT !.clients[c].tick = TRUE,
                                  !.clients[c].quiet = ~resolver.clients[c].busy,
                                  !.clients[c].busy = FALSE])

\* evts.next() is ready with Stop
StopReady(c) == resolver.stopped \/ resolver.clients[c].stop

\* evts.next().race(msg): the events come before the message when both are
\* ready
MsgReady(c) ==
    /\ ~StopReady(c)
    /\ ~resolver.clients[c].tick
    /\ resolver.clients[c].con

\* a turn of the loop takes Stop
RsStop(c) ==
    /\ pc = "resolver"
    /\ resolver.clients[c].st = "loop"
    /\ StopReady(c)
    /\ RsStep([resolver EXCEPT !.clients[c] = Returned(@, "Ok")], c, "stop", NoHello,
              <<>>, <<>>)

\* a turn of the loop takes Timeout
RsTimeout(c) ==
    /\ pc = "resolver"
    /\ resolver.clients[c].st = "loop"
    /\ resolver.clients[c].tick
    /\ RsStep([OnTimeout(resolver, c) EXCEPT
                  !.clients[c].quiet = FALSE,
                  !.pub = IF resolver.clients[c].act THEN @
                          ELSE {e \in @ : e[2] # resolver.clients[c].wa}],
              c, "timeout", NoHello, <<>>, <<>>)

\* a turn of the loop takes a batch
RsBatch(c, ok) ==
    /\ pc = "resolver"
    /\ resolver.clients[c].st = "loop"
    /\ MsgReady(c)
    /\ resolver.clients[c].inbox # <<>>
    /\ \E replies \in {handle_batch(resolver.store, Head(resolver.clients[c].inbox),
                                    resolver.clients[c].wa).replies} :
           RsStep([OnBatch(resolver, c, ok) EXCEPT
                      !.pub = Told(@, Answered(Head(resolver.clients[c].inbox)),
                                   replies, resolver.clients[c].wa)],
                  c, "msg", NoHello, Head(resolver.clients[c].inbox), replies)

\* a turn of the loop takes the error of a read at the end of the stream
RsReadError(c) ==
    /\ pc = "resolver"
    /\ resolver.clients[c].st = "loop"
    /\ MsgReady(c)
    /\ resolver.clients[c].inbox = <<>>
    /\ resolver.clients[c].eof
    /\ RsStep(OnReadError(resolver, c), c, "read error", NoHello, <<>>, <<>>)

NextRs ==
    \/ RsAccept
    \/ RsServerStop
    \/ \E c \in DOMAIN resolver.clients, hello \in Hellos : RsSendHello(c, hello)
    \/ \E c \in DOMAIN resolver.clients : RsHelloTimeout(c)
    \/ \E c \in DOMAIN resolver.clients, ok \in BOOLEAN : RsHello(c, ok)
    \/ \E c \in DOMAIN resolver.clients, batch \in Batches : RsSendBatch(c, batch)
    \/ \E c \in DOMAIN resolver.clients : RsDisconnect(c)
    \/ \E c \in DOMAIN resolver.clients : RsTick(c)
    \/ \E c \in DOMAIN resolver.clients : RsStop(c)
    \/ \E c \in DOMAIN resolver.clients : RsTimeout(c)
    \/ \E c \in DOMAIN resolver.clients, ok \in BOOLEAN : RsBatch(c, ok)
    \/ \E c \in DOMAIN resolver.clients : RsReadError(c)

SpecRs == InitRs /\ [][NextRs]_vars

-----------------------------------------------------------------------------
(* server_loop on its own: the tasks it spawns run client_loop, which       *)
(* returns for one of its reasons, and then subtract from the counter.      *)

\* the max_connections the server is started with, and how many connections
\* the listener hands out
max_connections == 2
MaxArrivals == 5

\* server_loop before its loop: connections is the AtomicUsize, tasks the
\* tasks spawned ("loop" while client_loop runs, "returned" between its
\* return and the fetch_sub, "done" after it), arrived and refused count the
\* connections accepted from the listener and those dropped unspawned
LoopNew ==
    [running |-> TRUE, stopped |-> FALSE, connections |-> 0, tasks |-> <<>>,
     arrived |-> 0, refused |-> 0]

InitSl ==
    /\ pc = "server"
    /\ NoContainer
    /\ channel = NoChannel
    /\ resolver = LoopNew

SlBecomes(rs) ==
    /\ resolver' = rs
    /\ UNCHANGED <<pc, lcvars, channel>>

\* the M::Cl(Ok((client, _))) arm: fetch_add, and the spawn when the value
\* it returned is below max_connections
SlAccepted(rs) ==
    IF rs.connections < max_connections
    THEN [rs EXCEPT !.connections = @ + 1, !.arrived = @ + 1,
                    !.tasks = Append(@, "loop")]
    ELSE [rs EXCEPT !.connections = @ + 1, !.arrived = @ + 1, !.refused = @ + 1]

\* listener.accept() hands out a connection
SlAccept ==
    /\ pc = "server"
    /\ ~resolver.stopped
    /\ resolver.arrived < MaxArrivals
    /\ SlBecomes(SlAccepted(resolver))

\* the M::Stop arm: server_loop returns, server_stop is ready in every task
SlStop ==
    /\ pc = "server"
    /\ ~resolver.stopped
    /\ SlBecomes([resolver EXCEPT !.stopped = TRUE])

\* client_loop returns in the task t
SlReturn(t) ==
    /\ pc = "server"
    /\ resolver.tasks[t] = "loop"
    /\ SlBecomes([resolver EXCEPT !.tasks[t] = "returned"])

\* connections.fetch_sub(1) in the task t, which ends
SlTaskEnd(t) ==
    /\ pc = "server"
    /\ resolver.tasks[t] = "returned"
    /\ SlBecomes([resolver EXCEPT !.tasks[t] = "done", !.connections = @ - 1])

NextSl ==
    \/ SlAccept
    \/ SlStop
    \/ \E t \in DOMAIN resolver.tasks : SlReturn(t)
    \/ \E t \in DOMAIN resolver.tasks : SlTaskEnd(t)

SpecSl == InitSl /\ [][NextSl]_vars

-----------------------------------------------------------------------------
(* Properties of the resolver server.                                       *)

\* the step was a turn of a client_loop that handled a batch
BatchTurn == pc = "resolver" /\ resolver'.last.kind = "msg"

\* the write address of the client that took the step, "" for a reader
TurnAddr == resolver.clients[resolver'.last.client].wa

\* the messages of the batch that are answered, and the answers
TurnMsgs == Answered(resolver'.last.batch)
TurnReplies == resolver'.last.replies

\* C16: on a read-only connection Publish, Unpublish and Clear leave the
\* store as it is and are each answered with an Error; on a write-only
\* connection Resolve and List are each answered with an Error, never with
\* what the store holds.
C16_RolesEnforced ==
    [][BatchTurn =>
           /\ Len(TurnReplies) = Len(TurnMsgs)
           /\ TurnAddr = "" =>
                  /\ resolver'.store = resolver.store
                  /\ \A i \in 1..Len(TurnMsgs) :
                         TurnMsgs[i].kind \in {"Publish", "Unpublish", "Clear"} =>
                             TurnReplies[i].kind = "Error"
           /\ TurnAddr # "" =>
                  \A i \in 1..Len(TurnMsgs) :
                      TurnMsgs[i].kind \in {"Resolve", "List"} =>
                          TurnReplies[i].kind = "Error"]_vars

\* a reader's Publish was refused while the store held what a writer
\* published
C16_ReaderRefused ==
    /\ pc = "resolver"
    /\ resolver.last.kind = "msg"
    /\ resolver.clients[resolver.last.client].wa = ""
    /\ resolver.last.batch[1].kind = "Publish"
    /\ Len(resolver.last.replies) = 1
    /\ resolver.last.replies[1].kind = "Error"
    /\ resolver.last.replies[1].v = "read only"
    /\ resolver.store.by_path # EmptyMap

\* the step was the hello of a client_loop, with a WriteOnly hello whose
\* ttl is 0 or above 3600
BadTtlHello ==
    /\ pc = "resolver"
    /\ resolver'.last.kind = "hello"
    /\ resolver'.last.hello.kind = "WriteOnly"
    /\ resolver'.last.hello.ttl = 0 \/ resolver'.last.hello.ttl > 3600

\* C17: a WriteOnly hello whose ttl is 0 or greater than 3600 ends the
\* connection before a ServerHello is sent and leaves the store as it was:
\* no client-info entry is registered or replaced, and no other connection
\* is stopped.
C17_BadTtlRefused ==
    [][BadTtlHello =>
           /\ resolver'.clients[resolver'.last.client].st = "done"
           /\ ~resolver'.clients[resolver'.last.client].greeted
           /\ resolver'.store = resolver.store
           /\ \A d \in DOMAIN resolver.clients \ {resolver'.last.client} :
                  resolver'.clients[d] = resolver.clients[d]]_vars

\* a hello with ttl 0 was refused while a writer with the same write address
\* was connected
C17_RefusedBesideWriter ==
    /\ pc = "resolver"
    /\ resolver.last.kind = "hello"
    /\ resolver.last.hello = WriteOnly(0, AddrA)
    /\ resolver.clients[resolver.last.client].r = "invalid ttl"
    /\ Has(resolver.store.clinfo, AddrA)
    /\ resolver.clients[resolver.store.clinfo[AddrA]].st = "loop"

\* the step was a turn of a client_loop that handled a tick of its interval
TimeoutTurn == pc = "resolver" /\ resolver'.last.kind = "timeout"

\* C18: a client that sent no batch between two ticks of its interval is
\* terminated at the second tick, and when it is a writer no path is left
\* published under its write address; a client that delivered a batch in
\* the interval that the tick ends is not timed out.
C18_TimedOutWhenQuiet ==
    [][TimeoutTurn =>
           /\ resolver.clients[resolver'.last.client].quiet =>
                  /\ resolver'.clients[resolver'.last.client].st = "done"
                  /\ TurnAddr # "" =>
                         \A p \in DOMAIN resolver'.store.by_path :
                             TurnAddr \notin resolver'.store.by_path[p]
           /\ resolver'.clients[resolver'.last.client].r = "client timed out" =>
                  resolver.clients[resolver'.last.client].quiet]_vars

\* the step was a turn of a client_loop that took Timeout or Stop
EndingTurn == pc = "resolver" /\ resolver'.last.kind \in {"timeout", "stop"}

\* the connection n registered for the write address wa after the connection
\* c did: both are in their loops with wa and the client-info of wa holds the
\* tx_stop of n
NewerThan(n, c, wa) ==
    /\ n # c /\ wa # ""
    /\ resolver.clients[n].st = "loop" /\ resolver.clients[n].wa = wa
    /\ resolver.clients[c].st = "loop" /\ resolver.clients[c].wa = wa
    /\ Has(resolver.store.clinfo, wa) /\ resolver.store.clinfo[wa] = n

\* C37: when a newer WriteOnly connection has registered for a write address,
\* a turn in which an older connection for that address takes Timeout or Stop
\* leaves the client-info entry of the newer one in place, does not stop the
\* newer one, and leaves published what the older one did not publish itself.
C37_NewerSurvivesOlder ==
    [][EndingTurn =>
          \A n \in DOMAIN resolver.clients :
              NewerThan(n, resolver'.last.client,
                        resolver.clients[resolver'.last.client].wa) =>
                  /\ Has(resolver'.store.clinfo, resolver.clients[n].wa)
                  /\ resolver'.store.clinfo[resolver.clients[n].wa] = n
                  /\ resolver'.clients[n].stop = resolver.clients[n].stop
                  /\ resolver.clients[resolver'.last.client].sent = 0 =>
                         resolver'.store.by_path = resolver.store.by_path]_vars

\* the tasks of rs that have not yet subtracted from the counter: those whose
\* client_loop runs and those between its return and the fetch_sub
Running(rs) == Cardinality({t \in DOMAIN rs.tasks : rs.tasks[t] # "done"})

\* C38: the connection counter equals the number of running client loops,
\* which never exceeds max_connections, and a connection that arrives while
\* fewer than max_connections client loops run is given its client loop.
C38_CounterCountsLoops ==
    [][pc = "server" =>
          /\ resolver'.connections = Running(resolver')
          /\ Running(resolver') <= max_connections
          /\ (resolver'.arrived # resolver.arrived
                  /\ Running(resolver) < max_connections) =>
                 Len(resolver'.tasks) = Len(resolver.tasks) + 1]_vars

\* the children of parent among the paths of pub
ToldChildren(parent) ==
    {AbsPath(SubSeq(e[1].parts, 1, Len(parent.parts) + 1)) :
        e \in {f \in resolver.pub :
                  /\ Len(f[1].parts) > Len(parent.parts)
                  /\ SubSeq(f[1].parts, 1, Len(parent.parts)) = parent.parts}}

=============================================================================
